---------------------------- MODULE Spec2Model ----------------------------
(***************************************************************************)
(* A model of the ad image pipeline of python_services:                    *)
(*   - AdImageGenerator.resize_and_crop        (services/ad_generator.py)  *)
(*   - AdImageGenerator.save_optimized_image   (services/ad_generator.py)  *)
(*   - PlatformOptimizer.optimize_file_size    (services/platform_optimizer.py) *)
(*   - AdEvaluator.get_ai_evaluation / evaluate_ad (services/evaluator.py) *)
(*   - AdImageGenerator.add_text_overlay / optimize_for_platform and       *)
(*     PlatformOptimizer.resize_for_platform / enhance_for_platform        *)
(*   - the four analyzers of AdEvaluator        (services/evaluator.py)    *)
(*   - the entry points and the order of their steps                       *)
(* Each component has its own specification over the shared variables:     *)
(* SpecResize, SpecCompress, SpecEval, SpecImageOps, SpecAnalyze and       *)
(* SpecRequest.                                                            *)
(***************************************************************************)
EXTENDS Integers, Sequences, FiniteSets, TLC

VARIABLES
    rz,     \* the last resize_and_crop call: its arguments, locals and result
    cmp,    \* the running compression call: its locals and position
    img,    \* the image being compressed: encoded size per quality tried so far
    disk,   \* the file at the output path: the last encoding written to it
    prev,   \* the result of the previous compression of the same image
    ev,     \* the running evaluate_ad call: its locals, position and outcome
    io,     \* the last image operation call (overlay, enhancement, fit resize)
    an,     \* the last call of one analyzer of the evaluator, and its outcome
    rq,     \* the running request at one entry point: its steps so far
    seen,   \* the previous evaluate_ad call on the same inputs, and its outcome
    fsc,    \* the last combination of scores in double arithmetic
    par,    \* the requests in flight on one event loop, and the output directory
    lg      \* the logging database, and the logging call running on it

vars == <<rz, cmp, img, disk, prev, ev, io, an, rq, seen, fsc, par, lg>>

None == "None"

\* a local that is not bound yet (file_size before the first iteration)
Unbound == 0 - 1

\* no file at the output path; no earlier call on this image
NoFile == [exists |-> FALSE]
NoPrev == [pc |-> "none"]

(***************************************************************************)
(* models/schemas.py: Platform and PLATFORM_SPECS                          *)
(***************************************************************************)
Platform == {"instagram", "instagram_story", "tiktok", "facebook", "pinterest"}

PLATFORM_SPECS ==
    [p \in Platform |->
        CASE p = "instagram" ->
               [dimensions |-> <<1080, 1080>>, max_file_size_mb |-> 30, compression |-> 85]
          [] p = "instagram_story" ->
               [dimensions |-> <<1080, 1920>>, max_file_size_mb |-> 30, compression |-> 85]
          [] p = "tiktok" ->
               [dimensions |-> <<1080, 1920>>, max_file_size_mb |-> 10, compression |-> 80,
                saturation_boost |-> 120]
          [] p = "facebook" ->
               [dimensions |-> <<1200, 630>>, max_file_size_mb |-> 8, compression |-> 85]
          [] p = "pinterest" ->
               [dimensions |-> <<1000, 1500>>, max_file_size_mb |-> 20, compression |-> 90,
                brightness_boost |-> 110]]

\* PlatformOptimizer.__init__: self.platform_specs, the optimizer's own table
platform_specs ==
    [p \in Platform |->
        CASE p = "instagram" ->
               [dimensions |-> <<1080, 1080>>, max_file_size_mb |-> 30, compression |-> 85]
          [] p = "instagram_story" ->
               [dimensions |-> <<1080, 1920>>, max_file_size_mb |-> 30, compression |-> 85]
          [] p = "tiktok" ->
               [dimensions |-> <<1080, 1920>>, max_file_size_mb |-> 10, compression |-> 80,
                saturation_boost |-> 120]
          [] p = "facebook" ->
               [dimensions |-> <<1200, 630>>, max_file_size_mb |-> 8, compression |-> 85]
          [] p = "pinterest" ->
               [dimensions |-> <<1000, 1500>>, max_file_size_mb |-> 20, compression |-> 90,
                brightness_boost |-> 110]]

(***************************************************************************)
(* Float arithmetic of resize_and_crop.  Python floats are IEEE-754        *)
(* doubles: `/` and `*` round the exact result to the nearest double (53   *)
(* bit significand, ties to even) and int() truncates.  FloatScale(n,t,s)  *)
(* is int(n * (t / s)) computed that way, for positive integers small      *)
(* enough that n*t*s < 2^40.  With e = floor(log2(t/s)) and k = 52 - e the *)
(* quotient double is m / 2^k, m the integer nearest t*2^k/s; the product  *)
(* n*m/2^k differs from n*t/s by less than n/2^(k+1), so the truncation is *)
(* floor(n*t/s) unless n*t/s is an integer A, the quotient was rounded     *)
(* down, and the product misses A by more than half the gap of the doubles *)
(* just below A: then it is A - 1.                                         *)
(***************************************************************************)
RECURSIVE Pow2(_)
Pow2(n) == IF n <= 0 THEN 1 ELSE 2 * Pow2(n - 1)

\* floor(log2(a)) for an integer a >= 1
RECURSIVE FloorLog2(_)
FloorLog2(a) == IF a < 2 THEN 0 ELSE 1 + FloorLog2(a \div 2)

\* floor(log2(t/s)): the binary exponent of the double t / s
RECURSIVE RatioExp(_, _)
RatioExp(t, s) ==
    IF t >= s THEN (IF t >= 2 * s THEN 1 + RatioExp(t, 2 * s) ELSE 0)
              ELSE RatioExp(2 * t, s) - 1

\* (x * 2^k) mod n
RECURSIVE ShiftMod(_, _, _)
ShiftMod(x, k, n) == IF k = 0 THEN x % n ELSE ShiftMod((2 * x) % n, k - 1, n)

\* whether the double t / s lies below the exact quotient (it was rounded down)
QuotientRoundedDown(t, s) ==
    LET k == 52 - RatioExp(t, s)
        X == ShiftMod(t, k, 2 * s)
        R == X % s
    IN  /\ R > 0
        /\ \/ 2 * R < s
           \/ 2 * R = s /\ X < s

\* the remainder of t*2^k by s: what the rounded-down quotient leaves out
QuotientRemainder(t, s) == ShiftMod(t, 52 - RatioExp(t, s), 2 * s) % s

FloatScale(n, t, s) ==
    LET A == (n * t) \div s
        B == (n * t) % s
        e == RatioExp(t, s)
        R == QuotientRemainder(t, s)
        bA == FloorLog2(A)
        sh == 1 + e - bA + (IF A = Pow2(bA) THEN 1 ELSE 0)
        roundsToA == IF sh >= 0 THEN n * R * Pow2(sh) <= s
                                ELSE n * R <= s * Pow2(0 - sh)
    IN  IF B # 0 \/ ~QuotientRoundedDown(t, s) THEN A
        ELSE IF roundsToA THEN A ELSE A - 1

(***************************************************************************)
(* AdImageGenerator.resize_and_crop                                        *)
(***************************************************************************)
MaxDim == 20

\* the sizes DALL-E 3 returns (generate_base_image)
DalleSizes == {<<1024, 1024>>, <<1024, 1792>>, <<1792, 1024>>}

\* source image sizes: every small size, the generator's sizes, a large square
SrcSizes == ((1..MaxDim) \X (1..MaxDim)) \cup DalleSizes \cup {<<2000, 2000>>}

\* ratio = max(target_width / img_width, target_height / img_height), kept as
\* the pair <<t, s>> whose quotient is the larger; division is monotone, so the
\* larger double is the double of the larger quotient
CoverRatio(img_width, img_height, target_width, target_height) ==
    IF target_width * img_height >= target_height * img_width
    THEN <<target_width, img_width>>
    ELSE <<target_height, img_height>>

\* a plausible slip: the right and bottom edges mirrored from the left and top
CropBoxMirrored(new_width, new_height, target_width, target_height) ==
    LET left == (new_width - target_width) \div 2
        top == (new_height - target_height) \div 2
    IN  [left |-> left, top |-> top,
         right |-> new_width - left, bottom |-> new_height - top]

\* left, top, right, bottom of the centered crop (// is floor division)
CropBox(new_width, new_height, target_width, target_height) ==
    LET left == (new_width - target_width) \div 2
        top == (new_height - target_height) \div 2
    IN  [left |-> left, top |-> top,
         right |-> left + target_width, bottom |-> top + target_height]

\* the call's locals and the size of the image it returns; Image.crop returns
\* an image of the box's size, filling what lies outside the source with zeros
resize_and_crop(img_width, img_height, target_width, target_height) ==
    LET ratio == CoverRatio(img_width, img_height, target_width, target_height)
        new_width == FloatScale(img_width, ratio[1], ratio[2])
        new_height == FloatScale(img_height, ratio[1], ratio[2])
        box == CropBox(new_width, new_height, target_width, target_height)
    IN  [new_width |-> new_width, new_height |-> new_height, box |-> box,
         size |-> <<box.right - box.left, box.bottom - box.top>>]

RzIdle == [pc |-> "idle"]
CmpIdle == [pc |-> "idle"]
EvIdle == [pc |-> "idle"]
IoIdle == [pc |-> "idle"]
AnIdle == [pc |-> "idle"]
RqIdle == [pc |-> "idle"]
NotSeen == [pc |-> "none"]
FscIdle == [pc |-> "idle"]
ParIdle == [pc |-> "idle"]
LgIdle == [pc |-> "idle"]

InitResize ==
    /\ rz = RzIdle
    /\ cmp = CmpIdle
    /\ img = << >>
    /\ disk = NoFile
    /\ prev = NoPrev
    /\ ev = EvIdle
    /\ io = IoIdle
    /\ an = AnIdle
    /\ rq = RqIdle
    /\ seen = NotSeen
    /\ fsc = FscIdle
    /\ par = ParIdle
    /\ lg = LgIdle

\* one call resize_and_crop(image, P.dimensions[0], P.dimensions[1])
ResizeAndCrop ==
    \E s \in SrcSizes, p \in Platform :
        LET target == PLATFORM_SPECS[p].dimensions
            r == resize_and_crop(s[1], s[2], target[1], target[2])
        IN  /\ rz.pc = "idle"
            /\ rz' = [pc |-> "done", src |-> s, platform |-> p, target |-> target,
                      new_width |-> r.new_width, new_height |-> r.new_height,
                      box |-> r.box, size |-> r.size]
            /\ UNCHANGED <<cmp, img, disk, prev, ev, io, an, rq, seen, fsc, par, lg>>

\* the caller takes the returned image; the generator is ready for the next
ResizeReturned ==
    /\ rz.pc = "done"
    /\ rz' = RzIdle
    /\ UNCHANGED <<cmp, img, disk, prev, ev, io, an, rq, seen, fsc, par, lg>>

NextResize == ResizeAndCrop \/ ResizeReturned

SpecResize == InitResize /\ [][NextResize]_vars

\* C1: for every supported platform P and every source image of at least 1x1,
\* resize_and_crop returns an image of exactly P.target_width x P.target_height.
C1_ExactTargetSize ==
    rz.pc = "done" => rz.size = PLATFORM_SPECS[rz.platform].dimensions

\* C1 witness: a call that scaled a source of another size and cropped the excess
C1_Witness ==
    /\ rz.pc = "done"
    /\ rz.src # rz.target
    /\ rz.new_height > rz.target[2]
    /\ rz.box.top > 0
    /\ rz.size = rz.target

\* C2: the scaled intermediate covers the target and the crop box lies inside
\* it, so that no pixel of the output is padding.
C2_CropInsideScaled ==
    rz.pc = "done" =>
        /\ rz.new_width >= rz.target[1]
        /\ rz.new_height >= rz.target[2]
        /\ rz.box.left >= 0
        /\ rz.box.top >= 0
        /\ rz.box.right <= rz.new_width
        /\ rz.box.bottom <= rz.new_height

(***************************************************************************)
(* AdImageGenerator.save_optimized_image and                               *)
(* PlatformOptimizer.optimize_file_size: the quality-search loop           *)
(***************************************************************************)
Compressors == {"save_optimized_image", "optimize_file_size"}

\* the table each function reads its spec from
SpecTable(op) ==
    IF op = "save_optimized_image" THEN PLATFORM_SPECS ELSE platform_specs

\* max_size_bytes = spec["max_file_size_mb"] * 1024 * 1024
MaxSizeBytes(op, p) == SpecTable(op)[p].max_file_size_mb * 1024 * 1024

\* how many compressions of one image the model follows
MaxRuns == 2

\* encoded sizes the encoder may return: at and just above the smallest and
\* the largest ceiling of the tables
SizeSamples ==
    {8 * 1024 * 1024, 8 * 1024 * 1024 + 1, 30 * 1024 * 1024, 30 * 1024 * 1024 + 1}

QualityFloor == 10
QualityStep == 10

\* a plausible slip: the loop runs down to quality 0
LoopGuardToZero(quality) == quality > 0

\* while quality > 10
LoopGuard(quality) == quality > QualityFloor

\* a plausible slip: the comparison turned around
FitsReversed(file_size, max_size_bytes) == file_size >= max_size_bytes

\* file_size <= max_size_bytes
Fits(file_size, max_size_bytes) == file_size <= max_size_bytes

\* a plausible slip: the loop goes on after a fit
AfterEncodeNoBreak(c, file_size) ==
    [c EXCEPT !.file_size = file_size,
              !.encoded = Append(c.encoded, c.quality),
              !.quality = c.quality - QualityStep]

\* the rest of one iteration once the file is written and measured:
\* break on a fit, else quality -= 10
AfterEncode(c, file_size) ==
    IF Fits(file_size, c.max_size_bytes)
    THEN [c EXCEPT !.file_size = file_size,
                   !.encoded = Append(c.encoded, c.quality),
                   !.pc = "return"]
    ELSE [c EXCEPT !.file_size = file_size,
                   !.encoded = Append(c.encoded, c.quality),
                   !.quality = c.quality - QualityStep]

\* a plausible slip: the byte count compared with the ceiling in megabytes
ReturnValueByMegabytes(c) ==
    [final_quality |-> c.quality,
     file_size_mb |-> <<c.file_size, 1024 * 1024>>,
     within_limits |-> c.file_size <= c.max_size_bytes \div (1024 * 1024)]

\* the returned dict; file_size_mb is the fraction file_size / (1024 * 1024)
ReturnValue(c) ==
    [final_quality |-> c.quality,
     file_size_mb |-> <<c.file_size, 1024 * 1024>>,
     within_limits |-> Fits(c.file_size, c.max_size_bytes)]

InitCompress ==
    /\ rz = RzIdle
    /\ cmp = CmpIdle
    /\ img = << >>
    /\ disk = NoFile
    /\ prev = NoPrev
    /\ ev = EvIdle
    /\ io = IoIdle
    /\ an = AnIdle
    /\ rq = RqIdle
    /\ seen = NotSeen
    /\ fsc = FscIdle
    /\ par = ParIdle
    /\ lg = LgIdle

\* a call of one of the two functions for platform p: the statements before
\* the loop.  The model follows a further call on the same image when it is a
\* call of the same function (img holds the sizes of that function's encoder)
\* for a platform with the same starting quality.
StartCompress ==
    \E op \in Compressors, p \in Platform :
        /\ \/ cmp.pc = "idle"
           \/ /\ cmp.pc = "done"
              /\ cmp.n < MaxRuns
              /\ cmp.op = op
              /\ cmp.compression = SpecTable(op)[p].compression
        /\ cmp' = [pc |-> "loop", op |-> op, platform |-> p,
                   n |-> IF cmp.pc = "idle" THEN 1 ELSE cmp.n + 1,
                   max_size_bytes |-> MaxSizeBytes(op, p),
                   compression |-> SpecTable(op)[p].compression,
                   quality |-> SpecTable(op)[p].compression,
                   file_size |-> Unbound,
                   encoded |-> << >>,
                   result |-> None]
        /\ prev' = IF cmp.pc = "done" THEN cmp ELSE NoPrev
        /\ UNCHANGED <<rz, img, disk, ev, io, an, rq, seen, fsc, par, lg>>

\* one iteration of the loop: image.save at the current quality,
\* os.path.getsize, the fit test.  The encoder is deterministic: a quality
\* already tried on this image gives the size it gave before.
EncodeIteration ==
    /\ cmp.pc = "loop"
    /\ LoopGuard(cmp.quality)
    /\ \E size \in (IF cmp.quality \in DOMAIN img THEN {img[cmp.quality]}
                                                  ELSE SizeSamples) :
        /\ img' = (cmp.quality :> size) @@ img
        /\ disk' = [exists |-> TRUE, quality |-> cmp.quality, size |-> size]
        /\ cmp' = AfterEncode(cmp, size)
    /\ UNCHANGED <<rz, prev, ev, io, an, rq, seen, fsc, par, lg>>

\* the return statement, reached by break or by the loop guard failing; it
\* reads file_size, which is unbound when the loop body never ran
Return ==
    /\ \/ cmp.pc = "return"
       \/ cmp.pc = "loop" /\ ~LoopGuard(cmp.quality)
    /\ cmp' = IF cmp.file_size = Unbound
              THEN [cmp EXCEPT !.pc = "raised"]
              ELSE [cmp EXCEPT !.pc = "done", !.result = ReturnValue(cmp)]
    /\ UNCHANGED <<rz, img, disk, prev, ev, io, an, rq, seen, fsc, par, lg>>

\* the next image
NewImage ==
    /\ cmp.pc = "done"
    /\ cmp' = CmpIdle
    /\ img' = << >>
    /\ disk' = NoFile
    /\ prev' = NoPrev
    /\ UNCHANGED <<rz, ev, io, an, rq, seen, fsc, par, lg>>

NextCompress == StartCompress \/ EncodeIteration \/ Return \/ NewImage

SpecCompress == InitCompress /\ [][NextCompress]_vars

CmpRunning == cmp.pc \in {"loop", "return", "done", "raised"}

\* the qualities of the ladder from q0 that lie above q, highest first
LadderAbove(q0, q) == {x \in (q + 1)..q0 : (q0 - x) % QualityStep = 0}

\* C3: the loop encodes first at the platform's compression value, then at
\* qualities decreasing by exactly 10; every encoding before the last one was
\* over the ceiling (nothing is encoded after a fit), so a fit is the highest
\* fitting quality of the ladder; and no encoding is made at a quality <= 10.
C3_LadderStopsAtFirstFit ==
    CmpRunning =>
        /\ \A i \in 1..Len(cmp.encoded) :
              /\ cmp.encoded[i] = cmp.compression - QualityStep * (i - 1)
              /\ cmp.encoded[i] > QualityFloor
              /\ i < Len(cmp.encoded) => img[cmp.encoded[i]] > cmp.max_size_bytes
        /\ cmp.pc = "done" /\ img[disk.quality] <= cmp.max_size_bytes =>
              /\ cmp.result.final_quality = disk.quality
              /\ disk.quality = cmp.encoded[Len(cmp.encoded)]
              /\ \A q \in LadderAbove(cmp.compression, disk.quality) :
                    img[q] > cmp.max_size_bytes

\* C3 witness: a call that stepped down the ladder twice and stopped at a fit
C3_Witness ==
    /\ cmp.pc = "done"
    /\ Len(cmp.encoded) = 3
    /\ cmp.result.final_quality = cmp.compression - 2 * QualityStep
    /\ cmp.result.within_limits

\* C4: the compression does not raise; when no quality of the ladder fits it
\* returns within_limits = FALSE; and within_limits is TRUE exactly when the
\* last encoding written to the path is within max_bytes.
C4_SoftFailure ==
    /\ cmp.pc # "raised"
    /\ cmp.pc = "done" =>
          /\ cmp.result.within_limits = (disk.size <= cmp.max_size_bytes)
          /\ (\A i \in 1..Len(cmp.encoded) : img[cmp.encoded[i]] > cmp.max_size_bytes)
                 => cmp.result.within_limits = FALSE

\* C4 witness: the whole ladder was tried and nothing fitted
C4_Witness ==
    /\ cmp.pc = "done"
    /\ ~LoopGuard(cmp.quality)
    /\ disk.size > cmp.max_size_bytes
    /\ cmp.result.within_limits = FALSE

\* C5: for the same image and the same starting quality, a larger ceiling
\* never gives a lower final_quality than a smaller one.
C5_MonotoneInCeiling ==
    (cmp.pc = "done" /\ prev.pc = "done" /\ prev.compression = cmp.compression) =>
        /\ prev.max_size_bytes <= cmp.max_size_bytes =>
              cmp.result.final_quality >= prev.result.final_quality
        /\ cmp.max_size_bytes <= prev.max_size_bytes =>
              prev.result.final_quality >= cmp.result.final_quality

\* C5 witness: the same image under a smaller and then a larger ceiling, where
\* the larger ceiling kept a strictly higher quality
C5_Witness ==
    /\ cmp.pc = "done"
    /\ prev.pc = "done"
    /\ prev.compression = cmp.compression
    /\ prev.max_size_bytes < cmp.max_size_bytes
    /\ cmp.result.final_quality > prev.result.final_quality

\* C6: the loop terminates: from a starting quality q0 it makes at most
\* ceil((q0 - 10) / 10) encodings, never two at the same quality, and each
\* encoding lowers what is left of the ladder.
C6_BoundedLoop ==
    CmpRunning =>
        /\ Len(cmp.encoded) * QualityStep <= (cmp.compression - QualityFloor) + (QualityStep - 1)
        /\ \A i, j \in 1..Len(cmp.encoded) : i # j => cmp.encoded[i] # cmp.encoded[j]
        /\ cmp.pc = "loop" =>
              cmp.quality = cmp.compression - QualityStep * Len(cmp.encoded)

\* C6 witness: all eight rungs from 85 were encoded and the call returned
C6_Witness ==
    /\ cmp.pc = "done"
    /\ cmp.compression = 85
    /\ Len(cmp.encoded) = 8

\* C28: the returned final_quality is the quality at which the file left on
\* disk was last encoded, and the returned size is the size of that encoding,
\* also when the loop ended at the floor without any quality fitting.
C28_FinalQualityOnDisk ==
    cmp.pc = "done" =>
        /\ cmp.result.final_quality = disk.quality
        /\ cmp.result.file_size_mb = <<disk.size, 1024 * 1024>>

(***************************************************************************)
(* AdEvaluator.get_ai_evaluation and AdEvaluator.evaluate_ad               *)
(*                                                                         *)
(* Scores are exact fractions of ScoreOne (1.0): an analyzer metric given  *)
(* in hundredths m is m * ScoreOne / 100, an AI score given in tenths a    *)
(* (7.0 is 70) divided by 10 is a * ScoreOne / 100.  ScoreOne is chosen so *)
(* that the weights 0.3 and 0.4 and the means over 4 and 5 values are      *)
(* whole numbers.                                                          *)
(***************************************************************************)
ScoreOne == 200 * 100

\* a metric given in hundredths, as a score
Hundredths(m) == m * (ScoreOne \div 100)

\* how many improvements an AI judgment of the model lists at most
MaxImprovements == 2

\* analyzer results the model draws from (hundredths)
HarmonySamples == {0, 70, 100}
BalanceSamples == {0, 70, 100}
ReadabilitySamples == {0, 69, 70, 100}
PlatformScoreSamples == {1, 79, 80, 100}

\* scores the AI may answer with (tenths): in range, and out of range
AIScoreSamples == {0 - 10, 0, 69, 70, 100, 150}

\* the AI's improvements: the first n of these
AIImprovementPool ==
    <<<<"ai improvement 1">>, <<"ai improvement 2">>, <<"ai improvement 3">>,
      <<"ai improvement 4">>>>

AIImprovementLists ==
    {SubSeq(AIImprovementPool, 1, n) : n \in 0..MaxImprovements}

\* the dict the except branch of get_ai_evaluation returns (scores in tenths)
DefaultJudgment ==
    [visual_appeal |-> 70,
     brand_alignment |-> 70,
     platform_optimization |-> 70,
     audience_relevance |-> 70,
     cta_clarity |-> 70,
     overall_rating |-> 70,
     strengths |-> <<<<"Professional appearance">>>>,
     improvements |-> <<<<"Could not analyze due to API limitation">>>>,
     engagement_prediction |-> "medium"]

\* a JSON object the model may answer with: each of the keys evaluate_ad reads
\* is present or not
OptionalKey(present, key, value) ==
    IF present THEN (key :> value) ELSE << >>

AIJsonObjects ==
    {OptionalKey(hv, "visual_appeal", v) @@ OptionalKey(hb, "brand_alignment", b)
        @@ OptionalKey(hi, "improvements", imp)
        @@ [engagement_prediction |-> "high"] :
        hv \in BOOLEAN, hb \in BOOLEAN, hi \in BOOLEAN,
        v \in AIScoreSamples, b \in AIScoreSamples, imp \in AIImprovementLists}

\* what the collaborator does: the API call raises (timeout, unavailable), or
\* it answers with content that is not JSON, or with a JSON object
AIResponses ==
    {[kind |-> k, value |-> << >>] : k \in {"timeout", "unavailable", "not_json"}}
        \cup {[kind |-> "json", value |-> o] : o \in AIJsonObjects}

\* get_ai_evaluation: the try block returns the parsed content; any exception
\* in it (the API call, json.loads) returns the default
get_ai_evaluation(resp) ==
    IF resp.kind = "json" THEN resp.value ELSE DefaultJudgment

\* KMeans(n_clusters=3, random_state=42, n_init=10)
random_state == 42

\* np.mean of a list of scores
RECURSIVE SumSeq(_)
SumSeq(s) == IF s = << >> THEN 0 ELSE Head(s) + SumSeq(Tail(s))

Mean(s) == SumSeq(s) \div Len(s)

\* a plausible slip: the weights of harmony and balance exchanged
VisualAppealSwapped(color_harmony, balance_score, ai_visual_appeal) ==
    (Hundredths(color_harmony) * 4 + Hundredths(balance_score) * 3
        + Hundredths(ai_visual_appeal) * 3) \div 10

\* color_harmony * 0.3 + balance_score * 0.4 + ai["visual_appeal"] / 10 * 0.3
VisualAppeal(color_harmony, balance_score, ai_visual_appeal) ==
    (Hundredths(color_harmony) * 3 + Hundredths(balance_score) * 4
        + Hundredths(ai_visual_appeal) * 3) \div 10

\* the four fixed hints, each appended when its score is under its threshold
FixedHints(visual_appeal, text_readability, platform_optimization, brand_alignment, platform) ==
    (IF visual_appeal * 10 < 7 * ScoreOne
        THEN <<<<"Improve visual composition and color harmony">>>> ELSE << >>)
    \o (IF text_readability * 10 < 7 * ScoreOne
        THEN <<<<"Enhance text contrast and readability">>>> ELSE << >>)
    \o (IF platform_optimization * 10 < 8 * ScoreOne
        THEN <<<<"Optimize dimensions for ", platform>>>> ELSE << >>)
    \o (IF brand_alignment * 10 < 7 * ScoreOne
        THEN <<<<"Better align visual elements with brand identity">>>> ELSE << >>)

\* a plausible slip: the last five suggestions kept instead of the first five
TopFiveLast(suggestions) ==
    SubSeq(suggestions, IF Len(suggestions) > 5 THEN Len(suggestions) - 4 ELSE 1,
           Len(suggestions))

\* suggestions[:5]
TopFive(suggestions) ==
    SubSeq(suggestions, 1, IF Len(suggestions) > 5 THEN 5 ELSE Len(suggestions))

\* ai_evaluation.get("improvements", [])
GetImprovements(ai_evaluation) ==
    IF "improvements" \in DOMAIN ai_evaluation THEN ai_evaluation.improvements
                                               ELSE << >>

\* evaluate_ad after the await: the scores, the suggestions, the report
BuildReport(e, ai_evaluation) ==
    LET visual_appeal == VisualAppeal(e.color_analysis.color_harmony,
                                      e.composition_analysis.balance_score,
                                      ai_evaluation.visual_appeal)
        text_readability == Hundredths(e.text_analysis.readability_score)
        brand_alignment == Hundredths(ai_evaluation.brand_alignment)
        platform_optimization == Hundredths(e.platform_score)
        engagement_factors == <<visual_appeal, text_readability, brand_alignment,
                                platform_optimization>>
        engagement_prediction == Mean(engagement_factors)
        overall_score == Mean(<<visual_appeal, text_readability, brand_alignment,
                                platform_optimization, engagement_prediction>>)
        suggestions == FixedHints(visual_appeal, text_readability,
                                  platform_optimization, brand_alignment, e.platform)
                           \o GetImprovements(ai_evaluation)
    IN  [overall_score |-> overall_score,
         visual_appeal |-> visual_appeal,
         text_readability |-> text_readability,
         brand_alignment |-> brand_alignment,
         platform_optimization |-> platform_optimization,
         engagement_prediction |-> engagement_prediction,
         suggestions |-> TopFive(suggestions),
         detailed_analysis |->
            [color_analysis |-> e.color_analysis,
             composition_analysis |-> e.composition_analysis,
             text_analysis |-> e.text_analysis,
             ai_evaluation |-> ai_evaluation,
             technical_scores |->
                [platform_optimization |-> e.platform_score,
                 visual_appeal_technical |-> visual_appeal,
                 engagement_factors |-> engagement_factors]]]

InitEval ==
    /\ rz = RzIdle
    /\ cmp = CmpIdle
    /\ img = << >>
    /\ disk = NoFile
    /\ prev = NoPrev
    /\ ev = EvIdle
    /\ io = IoIdle
    /\ an = AnIdle
    /\ rq = RqIdle
    /\ seen = NotSeen
    /\ fsc = FscIdle
    /\ par = ParIdle
    /\ lg = LgIdle

\* the centre lists a fit of an image's pixels can end in: its three clusters
\* in one order or another
ClusterOrders ==
    <<<<"centre a", "centre b", "centre c">>,
      <<"centre b", "centre c", "centre a">>,
      <<"centre c", "centre a", "centre b">>>>

\* a plausible slip: the clustering is not seeded, its initialisation is drawn
\* from the global random state and differs from fit to fit
KMeansFitUnseeded(seed) == {ClusterOrders[i] : i \in 1..Len(ClusterOrders)}

\* KMeans(n_clusters=3, random_state=seed, n_init=10).fit(pixels)
\* .cluster_centers_: with an int seed the initialisations, and so the result,
\* are the same for every fit of the same pixels
KMeansFit(seed) == {ClusterOrders[(seed % Len(ClusterOrders)) + 1]}

\* the image, text and platform of a call are those of the call before
SameInputs(p, ch, bs, rs, ps) ==
    /\ p = seen.evaluated.platform
    /\ ch = seen.evaluated.color_analysis.color_harmony
    /\ bs = seen.evaluated.composition_analysis.balance_score
    /\ rs = seen.evaluated.text_analysis.readability_score
    /\ ps = seen.evaluated.platform_score

\* evaluate_ad up to its await: the four analyzers have run on the image.
\* The model follows one further evaluation of the same image, text and
\* platform, for which the analyzers compute the same statistics and the
\* clustering is fitted again.
EvaluateAd ==
    /\ ev.pc = "idle"
    /\ \E p \in Platform, ch \in HarmonySamples, bs \in BalanceSamples,
          rs \in ReadabilitySamples, ps \in PlatformScoreSamples,
          dc \in KMeansFit(random_state) :
          /\ seen # NotSeen => SameInputs(p, ch, bs, rs, ps)
          /\ ev' = [pc |-> "await_ai",
                    platform |-> p,
                    color_analysis |-> [color_harmony |-> ch, dominant_colors |-> dc],
                    composition_analysis |-> [balance_score |-> bs],
                    text_analysis |-> [readability_score |-> rs],
                    platform_score |-> ps]
    /\ UNCHANGED <<rz, cmp, img, disk, prev, io, an, rq, seen, fsc, par, lg>>

\* the collaborator answers or fails; get_ai_evaluation returns and evaluate_ad
\* runs to its end: ai_evaluation["visual_appeal"] and
\* ai_evaluation["brand_alignment"] raise KeyError on a dict without the key.
\* In the further evaluation the collaborator repeats what it did before.
AIResponds ==
    /\ ev.pc = "await_ai"
    /\ \E resp \in AIResponses :
          LET ai_evaluation == get_ai_evaluation(resp)
          IN  /\ seen # NotSeen => resp = seen.response
              /\ ev' = IF {"visual_appeal", "brand_alignment"} \subseteq DOMAIN ai_evaluation
                        THEN [pc |-> "done", platform |-> ev.platform, response |-> resp,
                              evaluated |-> ev,
                              report |-> BuildReport(ev, ai_evaluation)]
                        ELSE [pc |-> "raised", platform |-> ev.platform, response |-> resp,
                              evaluated |-> ev,
                              error |-> "KeyError"]
    /\ UNCHANGED <<rz, cmp, img, disk, prev, io, an, rq, seen, fsc, par, lg>>

\* the caller has the report or the exception; the evaluator keeps nothing.
\* seen is the observer's record of the call, for the next one on the same
\* inputs; after that one the model goes on to other inputs.
EvalReturned ==
    /\ ev.pc \in {"done", "raised"}
    /\ ev' = EvIdle
    /\ seen' = IF seen = NotSeen THEN ev ELSE NotSeen
    /\ UNCHANGED <<rz, cmp, img, disk, prev, io, an, rq, fsc, par, lg>>

NextEval == EvaluateAd \/ AIResponds \/ EvalReturned

SpecEval == InitEval /\ [][NextEval]_vars

\* C7: whenever the AI-judgment call fails (the call raises, the content is
\* not JSON, or the JSON lacks visual_appeal or brand_alignment) evaluate_ad
\* returns a complete report built on the fixed default judgment; the failure
\* never propagates out of evaluate_ad.
C7_DefaultOnAnyFailure ==
    (/\ ev.pc \in {"done", "raised"}
     /\ \/ ev.response.kind # "json"
        \/ ~({"visual_appeal", "brand_alignment"} \subseteq DOMAIN ev.response.value))
    => /\ ev.pc = "done"
       /\ ev.report.detailed_analysis.ai_evaluation = DefaultJudgment

\* C8: in every report evaluate_ad returns, whatever the AI answered, each of
\* the six scores lies in [0,1].
C8_ScoresInUnitInterval ==
    ev.pc = "done" =>
        /\ ev.report.overall_score \in 0..ScoreOne
        /\ ev.report.visual_appeal \in 0..ScoreOne
        /\ ev.report.text_readability \in 0..ScoreOne
        /\ ev.report.brand_alignment \in 0..ScoreOne
        /\ ev.report.platform_optimization \in 0..ScoreOne
        /\ ev.report.engagement_prediction \in 0..ScoreOne

\* C9: the suggestions of a report are the composition hint iff
\* visual_appeal < 0.7, the contrast hint iff text_readability < 0.7, the
\* dimension hint naming the platform iff platform_optimization < 0.8, the
\* brand hint iff brand_alignment < 0.7, in that order, followed by the AI's
\* improvements in their order, cut to the first 5: at most 5 entries, every
\* triggered hint present, every fixed hint before every AI entry.
C9_SuggestionsOrder ==
    ev.pc = "done" =>
        LET r == ev.report
            s == r.suggestions
            ai == r.detailed_analysis.ai_evaluation
            imp == IF "improvements" \in DOMAIN ai THEN ai.improvements ELSE << >>
            hv == r.visual_appeal * 10 < 7 * ScoreOne
            ht == r.text_readability * 10 < 7 * ScoreOne
            hp == r.platform_optimization * 10 < 8 * ScoreOne
            hb == r.brand_alignment * 10 < 7 * ScoreOne
            N(c) == IF c THEN 1 ELSE 0
            nfixed == N(hv) + N(ht) + N(hp) + N(hb)
            Has(h) == \E i \in 1..Len(s) : s[i] = h
        IN  /\ Len(s) <= 5
            /\ Len(s) = IF nfixed + Len(imp) > 5 THEN 5 ELSE nfixed + Len(imp)
            /\ Has(<<"Improve visual composition and color harmony">>) <=> hv
            /\ Has(<<"Enhance text contrast and readability">>) <=> ht
            /\ Has(<<"Optimize dimensions for ", ev.platform>>) <=> hp
            /\ Has(<<"Better align visual elements with brand identity">>) <=> hb
            /\ hv => s[1] = <<"Improve visual composition and color harmony">>
            /\ ht => s[N(hv) + 1] = <<"Enhance text contrast and readability">>
            /\ hp => s[N(hv) + N(ht) + 1] = <<"Optimize dimensions for ", ev.platform>>
            /\ hb => s[nfixed] = <<"Better align visual elements with brand identity">>
            /\ \A i \in (nfixed + 1)..Len(s) : s[i] = imp[i - nfixed]

\* C9 witness: all four hints triggered and two AI improvements, so the cut to
\* five drops the last AI entry
C9_Witness ==
    /\ ev.pc = "done"
    /\ Len(ev.report.suggestions) = 5
    /\ ev.report.suggestions[4] = <<"Better align visual elements with brand identity">>
    /\ Len(ev.report.detailed_analysis.ai_evaluation.improvements) = 2
    /\ ev.report.suggestions[5] = ev.report.detailed_analysis.ai_evaluation.improvements[1]

\* C10: visual_appeal = 0.3*color_harmony + 0.4*balance_score +
\* 0.3*(AI.visual_appeal/10), text_readability = readability_score,
\* brand_alignment = AI.brand_alignment/10, platform_optimization =
\* platform_optimization_score, engagement_prediction = the mean of those four
\* and overall_score = the mean of those four and engagement_prediction.
C10_CompositeFormulas ==
    ev.pc = "done" =>
        LET r == ev.report
            d == r.detailed_analysis
        IN  /\ r.visual_appeal * 1000 =
                  ScoreOne * (3 * d.color_analysis.color_harmony
                              + 4 * d.composition_analysis.balance_score
                              + 3 * d.ai_evaluation.visual_appeal)
            /\ r.text_readability * 100 = ScoreOne * d.text_analysis.readability_score
            /\ r.brand_alignment * 100 = ScoreOne * d.ai_evaluation.brand_alignment
            /\ r.platform_optimization * 100 =
                  ScoreOne * d.technical_scores.platform_optimization
            /\ r.engagement_prediction * 4 =
                  r.visual_appeal + r.text_readability + r.brand_alignment
                      + r.platform_optimization
            /\ r.overall_score * 5 =
                  r.visual_appeal + r.text_readability + r.brand_alignment
                      + r.platform_optimization + r.engagement_prediction

\* C10 witness: a report on an AI answer, with unequal harmony and balance and
\* four different composites
C10_Witness ==
    /\ ev.pc = "done"
    /\ ev.response.kind = "json"
    /\ ev.report.detailed_analysis.color_analysis.color_harmony = 100
    /\ ev.report.detailed_analysis.composition_analysis.balance_score = 0
    /\ ev.report.visual_appeal = (ScoreOne * 51) \div 100
    /\ ev.report.brand_alignment = (ScoreOne * 69) \div 100
    /\ ev.report.text_readability = ScoreOne
    /\ ev.report.platform_optimization = (ScoreOne * 79) \div 100

\* a second evaluation of the inputs of the call before, with the same
\* judgment of the collaborator, has ended
EvaluatedAgain ==
    /\ ev.pc \in {"done", "raised"}
    /\ seen # NotSeen
    /\ ev.platform = seen.platform
    /\ ev.evaluated.platform_score = seen.evaluated.platform_score
    /\ ev.evaluated.text_analysis = seen.evaluated.text_analysis
    /\ ev.evaluated.composition_analysis = seen.evaluated.composition_analysis
    /\ ev.evaluated.color_analysis.color_harmony
           = seen.evaluated.color_analysis.color_harmony
    /\ ev.response = seen.response

Generator == "AdImageGenerator"
Optimizer == "PlatformOptimizer"

\* the frame handed to add_text_overlay: generate_ad_image's dimensions, the
\* platform's own unless the request carries custom ones
CustomDimensions == {<<640, 480>>, <<600, 800>>}

TextSamples == {"", "Buy Now"}

\* draw.textbbox: the extent of the rendered text, which depends on the font
\* found on the host; one is wider than every frame
TextWidthSamples == {7, 300, 2001}
TextHeightSamples == {11, 96}

BrandColorSamples == {<< >>, <<"#FF0000">>, <<"#000000", "#FFFFFF">>}

\* the platforms whose text goes to the lower part of the frame
VerticalFormats == {"instagram_story", "tiktok"}

\* x, y of the text (// is floor division)
TextPosition(img_width, img_height, text_width, text_height, platform) ==
    IF platform \in VerticalFormats
    THEN [x |-> (img_width - text_width) \div 2,
          y |-> img_height - img_height \div 4 - text_height]
    ELSE [x |-> (img_width - text_width) \div 2,
          y |-> (img_height - text_height) \div 2]

OverlayPadding == 20

MinFontSize == 40

Max(a, b) == IF a >= b THEN a ELSE b
Min(a, b) == IF a <= b THEN a ELSE b

\* what add_text_overlay draws on the image; nothing for an empty text
add_text_overlay(img_width, img_height, text, text_width, text_height, brand_colors, platform) ==
    IF text = ""
    THEN [drawn |-> FALSE]
    ELSE LET pos == TextPosition(img_width, img_height, text_width, text_height, platform)
             bg_color == IF Len(brand_colors) > 1 THEN brand_colors[2] ELSE "#FFFFFF"
             text_color == IF Len(brand_colors) > 0 THEN brand_colors[1] ELSE "#000000"
         IN  [drawn |-> TRUE,
              font_size |-> Max(MinFontSize, img_height \div 20),
              x |-> pos.x, y |-> pos.y,
              rectangle |-> <<pos.x - OverlayPadding, pos.y - OverlayPadding,
                              pos.x + text_width + OverlayPadding,
                              pos.y + text_height + OverlayPadding>>,
              bg_color |-> bg_color, text_color |-> text_color]

InitImageOps ==
    /\ rz = RzIdle
    /\ cmp = CmpIdle
    /\ img = << >>
    /\ disk = NoFile
    /\ prev = NoPrev
    /\ ev = EvIdle
    /\ io = IoIdle
    /\ an = AnIdle
    /\ rq = RqIdle
    /\ seen = NotSeen
    /\ fsc = FscIdle
    /\ par = ParIdle
    /\ lg = LgIdle

\* one call add_text_overlay(image, text, brand_colors, platform)
AddTextOverlay ==
    \E p \in Platform, text \in TextSamples, tw \in TextWidthSamples,
       th \in TextHeightSamples, colors \in BrandColorSamples :
      \E size \in {PLATFORM_SPECS[p].dimensions} \cup CustomDimensions :
        /\ io.pc = "idle"
        /\ io' = [pc |-> "done", call |-> "add_text_overlay", platform |-> p,
                  size |-> size, text |-> text, text_width |-> tw,
                  text_height |-> th,
                  result |-> add_text_overlay(size[1], size[2], text, tw, th, colors, p)]
        /\ UNCHANGED <<rz, cmp, img, disk, prev, ev, an, rq, seen, fsc, par, lg>>

\* the enhancement steps of one call, in the order they are applied
Saturation(factor) == [enhancer |-> "Color", factor |-> factor]
Brightness(factor) == [enhancer |-> "Brightness", factor |-> factor]
Contrast(factor) == [enhancer |-> "Contrast", factor |-> factor]
Sharpen(percent) == [enhancer |-> "UnsharpMask", factor |-> percent]

ContrastBoost == 105

UnsharpPercent == 150

Has(spec, key) == key \in DOMAIN spec

\* a plausible slip: the general contrast boost applied before the platform's own
optimize_for_platform_contrast_first(platform) ==
    LET spec == PLATFORM_SPECS[platform]
    IN  <<Contrast(ContrastBoost)>>
        \o (IF Has(spec, "saturation_boost")
            THEN <<Saturation(spec.saturation_boost)>> ELSE << >>)
        \o (IF Has(spec, "brightness_boost")
            THEN <<Brightness(spec.brightness_boost)>> ELSE << >>)

\* AdImageGenerator.optimize_for_platform
optimize_for_platform(platform) ==
    LET spec == PLATFORM_SPECS[platform]
    IN  (IF Has(spec, "saturation_boost")
         THEN <<Saturation(spec.saturation_boost)>> ELSE << >>)
        \o (IF Has(spec, "brightness_boost")
            THEN <<Brightness(spec.brightness_boost)>> ELSE << >>)
        \o <<Contrast(ContrastBoost)>>

\* PlatformOptimizer.enhance_for_platform
enhance_for_platform(platform) ==
    LET spec == platform_specs[platform]
    IN  (IF platform = "tiktok" /\ Has(spec, "saturation_boost")
         THEN <<Saturation(spec.saturation_boost)>> ELSE << >>)
        \o (IF platform = "pinterest" /\ Has(spec, "brightness_boost")
            THEN <<Brightness(spec.brightness_boost)>> ELSE << >>)
        \o (IF platform \in {"instagram_story", "tiktok"}
            THEN <<Sharpen(UnsharpPercent)>> ELSE << >>)

\* one call optimize_for_platform(image, platform)
OptimizeForPlatform ==
    \E p \in Platform :
        /\ io.pc = "idle"
        /\ io' = [pc |-> "done", call |-> "optimize_for_platform",
                  class |-> Generator, platform |-> p,
                  steps |-> optimize_for_platform(p)]
        /\ UNCHANGED <<rz, cmp, img, disk, prev, ev, an, rq, seen, fsc, par, lg>>

\* one call enhance_for_platform(image, platform)
EnhanceForPlatform ==
    \E p \in Platform :
        /\ io.pc = "idle"
        /\ io' = [pc |-> "done", call |-> "enhance_for_platform",
                  class |-> Optimizer, platform |-> p,
                  steps |-> enhance_for_platform(p)]
        /\ UNCHANGED <<rz, cmp, img, disk, prev, ev, an, rq, seen, fsc, par, lg>>

\* ratio = min(width_ratio, height_ratio), kept as the pair <<t, s>> whose
\* quotient is the smaller; division is monotone, so the smaller double is the
\* double of the smaller quotient
FitRatio(width, height, target_width, target_height) ==
    IF target_width * height <= target_height * width
    THEN <<target_width, width>>
    ELSE <<target_height, height>>

\* a plausible slip: the larger ratio, as resize_and_crop takes it
resize_for_platform_covering(width, height, platform) ==
    LET target == platform_specs[platform].dimensions
        ratio == CoverRatio(width, height, target[1], target[2])
        new_width == FloatScale(width, ratio[1], ratio[2])
        new_height == FloatScale(height, ratio[1], ratio[2])
    IN  [new_width |-> new_width, new_height |-> new_height,
         size |-> target,
         x_offset |-> (target[1] - new_width) \div 2,
         y_offset |-> (target[2] - new_height) \div 2]

\* PlatformOptimizer.resize_for_platform: the scaled image, the white canvas
\* of the target size it is pasted on and the place it is pasted at
resize_for_platform(width, height, platform) ==
    LET target == platform_specs[platform].dimensions
        ratio == FitRatio(width, height, target[1], target[2])
        new_width == FloatScale(width, ratio[1], ratio[2])
        new_height == FloatScale(height, ratio[1], ratio[2])
    IN  [new_width |-> new_width, new_height |-> new_height,
         size |-> target,
         x_offset |-> (target[1] - new_width) \div 2,
         y_offset |-> (target[2] - new_height) \div 2]

\* the callers of resize_for_platform: generate_platform_variants resizes the
\* base image for every platform, create_carousel_images every cell
ResizeCallers == {"resize_for_platform", "generate_platform_variants", "create_carousel_images"}

CarouselPlatforms == {"instagram", "facebook"}

\* one frame made by resize_for_platform, called directly or for a variant or
\* a carousel cell
ResizeForPlatform ==
    \E s \in SrcSizes, p \in Platform, caller \in ResizeCallers :
        /\ io.pc = "idle"
        /\ caller = "create_carousel_images" => p \in CarouselPlatforms
        /\ io' = [pc |-> "done", call |-> "resize_for_platform", caller |-> caller,
                  platform |-> p, src |-> s,
                  frame |-> resize_for_platform(s[1], s[2], p)]
        /\ UNCHANGED <<rz, cmp, img, disk, prev, ev, an, rq, seen, fsc, par, lg>>

\* the caller takes the returned image
ImageOpReturned ==
    /\ io.pc = "done"
    /\ io' = IoIdle
    /\ UNCHANGED <<rz, cmp, img, disk, prev, ev, an, rq, seen, fsc, par, lg>>

NextImageOps ==
    \/ AddTextOverlay
    \/ OptimizeForPlatform
    \/ EnhanceForPlatform
    \/ ResizeForPlatform
    \/ ImageOpReturned

SpecImageOps == InitImageOps /\ [][NextImageOps]_vars

OverlayDrawn ==
    /\ io.pc = "done"
    /\ io.call = "add_text_overlay"
    /\ io.text # ""

\* C13: with non-empty text the overlay's vertical position follows the aspect
\* class of the platform's target frame: for a tall frame (height > 1.3 x width)
\* y = height - height/4 - text_height, which is at least
\* 3*height/4 - text_height; for every other platform
\* y = (height - text_height)/2; in both cases x = (width - text_width)/2.
C13_OverlayByAspectClass ==
    OverlayDrawn =>
        LET w == io.size[1]
            h == io.size[2]
            target == PLATFORM_SPECS[io.platform].dimensions
        IN  /\ io.result.drawn
            /\ io.result.x = (w - io.text_width) \div 2
            /\ IF 10 * target[2] > 13 * target[1]
               THEN /\ io.result.y = h - h \div 4 - io.text_height
                    /\ 4 * io.result.y >= 3 * h - 4 * io.text_height
               ELSE io.result.y = (h - io.text_height) \div 2

EnhanceDone ==
    /\ io.pc = "done"
    /\ io.call \in {"optimize_for_platform", "enhance_for_platform"}

\* the positions of the steps of one kind among the steps applied
StepsOf(steps, enhancer) == {i \in 1..Len(steps) : steps[i].enhancer = enhancer}

\* the steps of the three kinds come in the order first, second, last, each at
\* most once
InOrder(steps, first, second, last) ==
    /\ \A e \in {first, second, last} : Cardinality(StepsOf(steps, e)) <= 1
    /\ \A i \in StepsOf(steps, first) : \A j \in StepsOf(steps, second) : i < j
    /\ \A i \in StepsOf(steps, first) \cup StepsOf(steps, second) :
           \A j \in StepsOf(steps, last) : i < j

\* the saturation and brightness multipliers are applied exactly when the
\* platform's spec has them, with the spec's factor
BoostsFromSpec(steps, spec) ==
    /\ StepsOf(steps, "Color") # {} <=> Has(spec, "saturation_boost")
    /\ \A i \in StepsOf(steps, "Color") : steps[i].factor = spec.saturation_boost
    /\ StepsOf(steps, "Brightness") # {} <=> Has(spec, "brightness_boost")
    /\ \A i \in StepsOf(steps, "Brightness") : steps[i].factor = spec.brightness_boost

\* the statement of C14 as it was made: both enhancements end with the x1.05
\* contrast boost, for every platform
C14_ContrastLastInBoth ==
    EnhanceDone =>
        /\ BoostsFromSpec(io.steps, PLATFORM_SPECS[io.platform])
        /\ InOrder(io.steps, "Color", "Brightness", "Contrast")
        /\ Len(io.steps) > 0
        /\ io.steps[Len(io.steps)] = Contrast(ContrastBoost)

\* C14: optimize_for_platform applies the saturation multiplier (only if the
\* platform spec has saturation_boost), the brightness multiplier (only if it
\* has brightness_boost), then the x1.05 contrast boost, which is applied for
\* every platform and is always the last step.  enhance_for_platform applies
\* the two multipliers in the same order under the same conditions and no
\* contrast boost: its last step is an unsharp mask, applied only for
\* instagram_story and tiktok.
C14_EnhancementOrder ==
    EnhanceDone =>
        IF io.call = "optimize_for_platform"
        THEN /\ BoostsFromSpec(io.steps, PLATFORM_SPECS[io.platform])
             /\ InOrder(io.steps, "Color", "Brightness", "Contrast")
             /\ StepsOf(io.steps, "UnsharpMask") = {}
             /\ io.steps[Len(io.steps)] = Contrast(ContrastBoost)
        ELSE /\ BoostsFromSpec(io.steps, platform_specs[io.platform])
             /\ InOrder(io.steps, "Color", "Brightness", "UnsharpMask")
             /\ StepsOf(io.steps, "Contrast") = {}
             /\ StepsOf(io.steps, "UnsharpMask") # {}
                    <=> io.platform \in {"instagram_story", "tiktok"}
             /\ \A i \in StepsOf(io.steps, "UnsharpMask") :
                    io.steps[i].factor = UnsharpPercent

\* tiktok's frame enhanced by the optimizer: saturation, then sharpening
C14_Witness ==
    /\ EnhanceDone
    /\ io.call = "enhance_for_platform"
    /\ io.platform = "tiktok"
    /\ io.steps = <<Saturation(120), Sharpen(UnsharpPercent)>>

FrameMade ==
    /\ io.pc = "done"
    /\ io.call = "resize_for_platform"

\* the statement of C15 as it was made: the scaled source covers the whole
\* target frame, so no part of the white canvas is left visible
C15_CoverNoPadding ==
    FrameMade =>
        /\ io.frame.new_width >= io.frame.size[1]
        /\ io.frame.new_height >= io.frame.size[2]

\* C15: every frame that resize_for_platform produces (and so every variant of
\* generate_platform_variants and every carousel cell) is a fit resize: the
\* frame has exactly the platform's dimensions, the source is scaled by the
\* smaller of target_w/src_w and target_h/src_h and pasted centered inside the
\* frame, and the frame contains padded area whenever the aspect ratios of
\* source and target differ.
C15_FitWithPadding ==
    FrameMade =>
        LET f == io.frame
            target == platform_specs[io.platform].dimensions
        IN  /\ f.size = target
            /\ f.new_width <= target[1] /\ f.new_height <= target[2]
            /\ f.x_offset >= 0 /\ f.y_offset >= 0
            /\ f.x_offset = (target[1] - f.new_width) \div 2
            /\ f.y_offset = (target[2] - f.new_height) \div 2
            /\ f.new_width = target[1] \/ f.new_height = target[2]
                   \/ f.new_width = target[1] - 1 \/ f.new_height = target[2] - 1
            /\ io.src[1] * target[2] # io.src[2] * target[1]
                   => f.new_width < target[1] \/ f.new_height < target[2]

\* a square source made a facebook variant: 630 x 630 with white bars of 285
C15_Witness ==
    /\ FrameMade
    /\ io.caller = "generate_platform_variants"
    /\ io.platform = "facebook"
    /\ io.src = <<1024, 1024>>
    /\ io.frame.new_width = 630
    /\ io.frame.x_offset = 285

(***************************************************************************)
(* The analyzers of AdEvaluator.  Scores are exact fractions <<n, d>> with *)
(* d > 0.  Each analyzer is given the part of the image file it reads:     *)
(* whether the file can be decoded, its size, and the pixel data its       *)
(* result is computed from.                                                *)
(***************************************************************************)
One == <<1, 1>>
Half == <<1, 2>>

FracEq(a, b) == a[1] * b[2] = b[1] * a[2]

\* (a + b) / 2
FracMean(a, b) == <<a[1] * b[2] + b[1] * a[2], 2 * a[2] * b[2]>>

\* the sign of p/q - r/s for p, r >= 0 and q, s > 0, by the whole parts and
\* then the reciprocals of the remainders, so that no product leaves 32 bits
RECURSIVE FracCmp(_, _, _, _)
FracCmp(p, q, r, s) ==
    IF p \div q < r \div s THEN 0 - 1
    ELSE IF p \div q > r \div s THEN 1
    ELSE IF p % q = 0 /\ r % s = 0 THEN 0
    ELSE IF p % q = 0 THEN 0 - 1
    ELSE IF r % s = 0 THEN 1
    ELSE FracCmp(s, r % s, q, p % q)

Returned(value) == [kind |-> "returned", value |-> value]
Raised(error) == [kind |-> "raised", error |-> error]

\* the largest side of the images whose pixels are enumerated
MaxSide == 3

Sides == 1..MaxSide

(***************************************************************************)
(* analyze_text_readability                                                *)
(***************************************************************************)
\* len(text_content); 0 is the empty text
TextLengthSamples == {0, 7, 50, 51, 200, 250}

\* the contours of area above 1000 that cv2.findContours finds: the standard
\* deviation np.std of each one's bounding region, which is never empty
MaxRegions == 2

ContrastSamples == {0, 50, 100, 120}

RegionLists == UNION {[1..n -> ContrastSamples] : n \in 0..MaxRegions}

\* a plausible slip: the default of the contrast scores taken for the default
\* of the regions
NoRegionContrastHalf == <<5, 10>>

\* contrast_ratio = 0.7 when no text area is found
NoRegionContrast == <<7, 10>>

DefaultAvgContrast == 50

\* the scores of a non-empty text on the decoded image
ReadabilityOfText(text_length, regions) ==
    LET text_areas == regions
        contrast_scores == text_areas
        n == Len(contrast_scores)
        contrast_ratio ==
            IF Len(text_areas) > 0
            THEN IF n > 0
                 THEN <<Min(SumSeq(contrast_scores), 100 * n), 100 * n>>
                 ELSE <<Min(DefaultAvgContrast, 100), 100>>
            ELSE NoRegionContrast
        text_length_score == <<Max(0, 200 - text_length), 200>>
    IN  [readability_score |-> FracMean(contrast_ratio, text_length_score),
         contrast_ratio |-> contrast_ratio,
         text_length_appropriate |-> text_length <= 50]

PerfectReadability == [readability_score |-> One, contrast_ratio |-> One]

\* a plausible slip: the image is read before the text is looked at
analyze_text_readability_read_first(readable, text_length, regions) ==
    IF ~readable
    THEN [outcome |-> Raised("cv2.error"), read_image |-> TRUE]
    ELSE IF text_length = 0
    THEN [outcome |-> Returned(PerfectReadability), read_image |-> TRUE]
    ELSE [outcome |-> Returned(ReadabilityOfText(text_length, regions)),
          read_image |-> TRUE]

\* analyze_text_readability(image_path, text_content): cv2.imread gives None
\* for a file it cannot decode and cv2.cvtColor raises on None
analyze_text_readability(readable, text_length, regions) ==
    IF text_length = 0
    THEN [outcome |-> Returned(PerfectReadability), read_image |-> FALSE]
    ELSE IF ~readable
    THEN [outcome |-> Raised("cv2.error"), read_image |-> TRUE]
    ELSE [outcome |-> Returned(ReadabilityOfText(text_length, regions)),
          read_image |-> TRUE]

(***************************************************************************)
(* analyze_composition                                                     *)
(***************************************************************************)
\* the gray image cv2.cvtColor gives: width x height intensities, row by
\* row; the pixel at index k is in column (k - 1) % width, row (k - 1) \div width
Intensities == {0, 255}

GrayImages ==
    UNION {[width : {w}, height : {h}, gray : [1..(w * h) -> Intensities]] :
               <<w, h>> \in Sides \X Sides}

\* cv2.moments: the sums of intensity, of x * intensity and of y * intensity
RECURSIVE Moment(_, _, _, _)
Moment(image, xpow, ypow, k) ==
    IF k = 0 THEN 0
    ELSE (IF xpow = 1 THEN (k - 1) % image.width ELSE 1)
            * (IF ypow = 1 THEN (k - 1) \div image.width ELSE 1)
            * image.gray[k]
         + Moment(image, xpow, ypow, k - 1)

moments(image) ==
    [m00 |-> Moment(image, 0, 0, image.width * image.height),
     m10 |-> Moment(image, 1, 0, image.width * image.height),
     m01 |-> Moment(image, 0, 1, image.width * image.height)]

Abs(a) == IF a >= 0 THEN a ELSE 0 - a

\* the number of rows or columns in gray[from : from + 10] of an axis of n
StripExtent(from, n) == Max(0, Min(from + 10, n) - Min(from, n))

\* the sizes of the four strips on the rule-of-thirds lines
thirds_lines(width, height) ==
    LET third_x == width \div 3
        third_y == height \div 3
    IN  <<StripExtent(third_y, height) * width,
          StripExtent(2 * third_y, height) * width,
          StripExtent(third_x, width) * height,
          StripExtent(2 * third_x, width) * height>>

\* max(0, min(1, score)) of a fraction
Clamp01(score) ==
    IF score[1] < 0 THEN <<0, score[2]>>
    ELSE IF score[1] > score[2] THEN <<score[2], score[2]>>
    ELSE score

\* analyze_composition(image_path): the balance score and the strips the
\* rule-of-thirds statistic is taken over; edge density, complexity and the
\* rule-of-thirds score come from cv2.Canny and np.std and are not computed
analyze_composition(readable, image) ==
    IF ~readable THEN Raised("cv2.error")
    ELSE LET m == moments(image)
             center_x == image.width \div 2
             center_y == image.height \div 2
         IN  IF m.m00 # 0 /\ center_x + center_y = 0
             THEN Raised("ZeroDivisionError")
             ELSE LET balance_score ==
                          IF m.m00 # 0
                          THEN LET cx == m.m10 \div m.m00
                                   cy == m.m01 \div m.m00
                               IN  <<(center_x + center_y)
                                        - (Abs(cx - center_x) + Abs(cy - center_y)),
                                     center_x + center_y>>
                          ELSE Half
                  IN  Returned([balance_score |-> Clamp01(balance_score),
                                thirds_lines |-> thirds_lines(image.width, image.height)])

(***************************************************************************)
(* analyze_color_distribution                                              *)
(***************************************************************************)
\* images of one colour: every pixel is <<r, g, b>>, so the channel means of
\* ImageStat are r, g, b and every cluster centre of KMeans is the colour
ColorSamples == {<<0, 0, 0>>, <<128, 128, 128>>, <<255, 0, 0>>, <<250, 128, 10>>}

n_clusters == 3

\* the fallback when sklearn cannot be imported
FallbackColors == <<<<128, 128, 128>>, <<64, 64, 64>>, <<192, 192, 192>>>>

\* np.var of the three channel means, as a fraction
ChannelVariance(mean) ==
    LET total == mean[1] + mean[2] + mean[3]
        squares == mean[1] * mean[1] + mean[2] * mean[2] + mean[3] * mean[3]
    IN  <<3 * squares - total * total, 9>>

\* analyze_color_distribution(image_path): Image.open raises on a file it
\* cannot decode; KMeans.fit raises ValueError for fewer samples than clusters,
\* and only ImportError is caught.  The value is the returned dict, key by
\* key; contrast is np.std, the square root of the channel variance
analyze_color_distribution(readable, width, height, colour, sklearn) ==
    IF ~readable THEN Raised("UnidentifiedImageError")
    ELSE IF sklearn /\ width * height < n_clusters THEN Raised("ValueError")
    ELSE LET color_variance == ChannelVariance(colour)
         IN  Returned(
                 [dominant_colors |->
                      IF sklearn THEN <<colour, colour, colour>> ELSE FallbackColors,
                  color_harmony |->
                      <<Max(0, 10000 * color_variance[2] - color_variance[1]),
                        10000 * color_variance[2]>>,
                  brightness |-> <<colour[1] + colour[2] + colour[3], 3>>,
                  contrast |-> [sqrt_of |-> color_variance]])

(***************************************************************************)
(* platform_optimization_score                                             *)
(***************************************************************************)
\* a platform value that is no member of Platform
UnknownPlatformId == "snapchat"

PlatformIds == Platform \cup {UnknownPlatformId}

\* a plausible slip: the evaluator lists another common link-ad size for
\* facebook than the transformer tables
optimal_dimensions_facebook_628 ==
    [p \in Platform |->
        CASE p = "instagram" -> <<1080, 1080>>
          [] p = "instagram_story" -> <<1080, 1920>>
          [] p = "tiktok" -> <<1080, 1920>>
          [] p = "facebook" -> <<1200, 628>>
          [] p = "pinterest" -> <<1000, 1500>>]

optimal_dimensions ==
    [p \in Platform |->
        CASE p = "instagram" -> <<1080, 1080>>
          [] p = "instagram_story" -> <<1080, 1920>>
          [] p = "tiktok" -> <<1080, 1920>>
          [] p = "facebook" -> <<1200, 630>>
          [] p = "pinterest" -> <<1000, 1500>>]

min_pixels == 1000 * 1000

\* the sizes of the images scored: the sources, every platform's own size and
\* the sizes the two transformers produce
ScoredSizes ==
    SrcSizes \cup {optimal_dimensions[p] : p \in Platform}
             \cup {PLATFORM_SPECS[p].dimensions : p \in Platform}
             \cup {platform_specs[p].dimensions : p \in Platform}

\* a plausible slip: the resolution score is not capped at 1
ResolutionScoreUncapped(width, height) == <<width * height, min_pixels>>

\* resolution_score = min(1, total_pixels / min_pixels)
ResolutionScore(width, height) == <<Min(width * height, min_pixels), min_pixels>>

\* platform_optimization_score(image_path, platform): the two scores whose
\* average (dimension_score + resolution_score) / 2 is returned
platform_optimization_score(readable, width, height, platform) ==
    IF ~readable THEN Raised("UnidentifiedImageError")
    ELSE LET target == IF platform \in DOMAIN optimal_dimensions
                       THEN optimal_dimensions[platform]
                       ELSE <<width, height>>
             width_ratio == <<Min(width, target[1]), Max(width, target[1])>>
             height_ratio == <<Min(height, target[2]), Max(height, target[2])>>
         IN  Returned([dimension_score |-> FracMean(width_ratio, height_ratio),
                       resolution_score |-> ResolutionScore(width, height),
                       defaulted |-> platform \notin DOMAIN optimal_dimensions])

\* the sign of (dimension_score + resolution_score) / 2 - num / den
ScoreCmp(score, num, den) ==
    LET res == score.resolution_score
        rest == 2 * num * res[2] - res[1] * den
    IN  IF rest < 0 THEN 1
        ELSE FracCmp(score.dimension_score[1], score.dimension_score[2],
                     rest, den * res[2])

InitAnalyze ==
    /\ rz = RzIdle
    /\ cmp = CmpIdle
    /\ img = << >>
    /\ disk = NoFile
    /\ prev = NoPrev
    /\ ev = EvIdle
    /\ io = IoIdle
    /\ an = AnIdle
    /\ rq = RqIdle
    /\ seen = NotSeen
    /\ fsc = FscIdle
    /\ par = ParIdle
    /\ lg = LgIdle

\* one call analyze_color_distribution(image_path); whether sklearn can be
\* imported is a property of the host
AnalyzeColorDistribution ==
    \E readable \in BOOLEAN, w \in Sides, h \in Sides, colour \in ColorSamples,
       sklearn \in BOOLEAN :
        /\ an.pc = "idle"
        /\ an' = [pc |-> "done", call |-> "analyze_color_distribution",
                  readable |-> readable, width |-> w, height |-> h,
                  colour |-> colour, sklearn |-> sklearn,
                  outcome |-> analyze_color_distribution(readable, w, h, colour, sklearn)]
        /\ UNCHANGED <<rz, cmp, img, disk, prev, ev, io, rq, seen, fsc, par, lg>>

\* one call analyze_composition(image_path)
AnalyzeComposition ==
    \E readable \in BOOLEAN, image \in GrayImages :
        /\ an.pc = "idle"
        /\ an' = [pc |-> "done", call |-> "analyze_composition",
                  readable |-> readable, width |-> image.width,
                  height |-> image.height, image |-> image,
                  outcome |-> analyze_composition(readable, image)]
        /\ UNCHANGED <<rz, cmp, img, disk, prev, ev, io, rq, seen, fsc, par, lg>>

\* one call analyze_text_readability(image_path, text_content)
AnalyzeTextReadability ==
    \E readable \in BOOLEAN, text_length \in TextLengthSamples,
       regions \in RegionLists :
        LET r == analyze_text_readability(readable, text_length, regions)
        IN  /\ an.pc = "idle"
            /\ an' = [pc |-> "done", call |-> "analyze_text_readability",
                      readable |-> readable, text_length |-> text_length, regions |-> regions,
                      read_image |-> r.read_image, outcome |-> r.outcome]
            /\ UNCHANGED <<rz, cmp, img, disk, prev, ev, io, rq, seen, fsc, par, lg>>

\* one call platform_optimization_score(image_path, platform)
PlatformOptimizationScore ==
    \E readable \in BOOLEAN, s \in ScoredSizes, p \in PlatformIds :
        /\ an.pc = "idle"
        /\ an' = [pc |-> "done", call |-> "platform_optimization_score",
                  readable |-> readable, width |-> s[1], height |-> s[2],
                  platform |-> p,
                  outcome |-> platform_optimization_score(readable, s[1], s[2], p)]
        /\ UNCHANGED <<rz, cmp, img, disk, prev, ev, io, rq, seen, fsc, par, lg>>

\* the caller takes the result or the exception
AnalyzerReturned ==
    /\ an.pc = "done"
    /\ an' = AnIdle
    /\ UNCHANGED <<rz, cmp, img, disk, prev, ev, io, rq, seen, fsc, par, lg>>

NextAnalyze ==
    \/ AnalyzeColorDistribution
    \/ AnalyzeComposition
    \/ AnalyzeTextReadability
    \/ PlatformOptimizationScore
    \/ AnalyzerReturned

SpecAnalyze == InitAnalyze /\ [][NextAnalyze]_vars

AnalyzerDone(call) ==
    /\ an.pc = "done"
    /\ an.call = call

\* C16: with empty text analyze_text_readability returns readability_score 1.0
\* and contrast_ratio 1.0 for every image, and does not read the image: it
\* succeeds also for a file that cannot be read.
C16_EmptyTextPerfect ==
    (AnalyzerDone("analyze_text_readability") /\ an.text_length = 0) =>
        /\ an.outcome = [kind |-> "returned",
                         value |-> [readability_score |-> <<1, 1>>,
                                    contrast_ratio |-> <<1, 1>>]]
        /\ ~an.read_image

\* the empty text on a file that cannot be decoded
C16_Witness ==
    /\ AnalyzerDone("analyze_text_readability")
    /\ an.text_length = 0
    /\ ~an.readable
    /\ an.outcome.kind = "returned"

\* a non-empty text on a readable image in which no region of area above 1000
\* is found
NoRegionFound ==
    /\ AnalyzerDone("analyze_text_readability")
    /\ an.text_length > 0
    /\ an.readable
    /\ an.regions = << >>

\* the statement of C17 as it was made: with no region the average contrast
\* defaults to 50, so contrast_ratio = 0.5 and
\* readability_score = (0.5 + max(0, 1 - len(text)/200)) / 2
C17_NoRegionContrastHalf ==
    NoRegionFound =>
        /\ an.outcome.kind = "returned"
        /\ FracEq(an.outcome.value.contrast_ratio, <<50, 100>>)
        /\ FracEq(an.outcome.value.readability_score,
                  FracMean(<<50, 100>>, <<Max(0, 200 - an.text_length), 200>>))

\* C17: for non-empty text, when the thresholded image has no connected region
\* of area above 1000 px^2, analyze_text_readability uses the default
\* contrast_ratio 0.7, so
\* readability_score = (0.7 + max(0, 1 - len(text)/200)) / 2.
C17_NoRegionContrastDefault ==
    NoRegionFound =>
        /\ an.outcome.kind = "returned"
        /\ FracEq(an.outcome.value.contrast_ratio, <<7, 10>>)
        /\ FracEq(an.outcome.value.readability_score,
                  FracMean(<<7, 10>>, <<Max(0, 200 - an.text_length), 200>>))

\* "Buy Now" on an image without regions: (0.7 + 0.965) / 2 = 0.8325
C17_Witness ==
    /\ NoRegionFound
    /\ an.text_length = 7
    /\ an.outcome.kind = "returned"
    /\ FracEq(an.outcome.value.readability_score, <<333, 400>>)

\* C18: analyze_composition returns a balance_score in [0,1] for every image:
\* 1 - (|cx - center_x| + |cy - center_y|) / (center_x + center_y) clamped to
\* [0,1] when the total intensity m00 is non-zero, and exactly 0.5 when m00 is
\* zero.
C18_BalanceInUnitInterval ==
    (AnalyzerDone("analyze_composition") /\ an.readable) =>
        /\ an.outcome.kind = "returned"
        /\ LET b == an.outcome.value.balance_score
               m == moments(an.image)
               center_x == an.width \div 2
               center_y == an.height \div 2
           IN  /\ 0 <= b[1] /\ b[1] <= b[2]
               /\ m.m00 = 0 => FracEq(b, <<1, 2>>)
               /\ m.m00 # 0 =>
                      LET off == Abs(m.m10 \div m.m00 - center_x)
                                   + Abs(m.m01 \div m.m00 - center_y)
                      IN  FracEq(b, <<Max(0, Min(center_x + center_y,
                                                 center_x + center_y - off)),
                                      center_x + center_y>>)

\* C19: the analyzers never fail on a well-formed image: for every readable
\* image of width >= 1 and height >= 1 each of the four returns a result, and
\* none of the rule-of-thirds strips is empty.
C19_AnalyzersNeverFail ==
    (an.pc = "done" /\ an.readable) =>
        /\ an.outcome.kind = "returned"
        /\ an.call = "analyze_composition" =>
               \A i \in 1..4 : an.outcome.value.thirds_lines[i] > 0

ScoreDone ==
    /\ AnalyzerDone("platform_optimization_score")
    /\ an.readable
    /\ an.platform \in Platform

\* C20: platform_optimization_score(image, P) is the average of the dimension
\* score (min(w,tw)/max(w,tw) + min(h,th)/max(h,th)) / 2 and the resolution
\* score min(1, w*h/1000000); for every image of size >= 1x1 it lies in (0,1],
\* and it is 1 exactly when w = tw, h = th and w*h >= 1000000.
C20_PlatformScoreRange ==
    ScoreDone =>
        /\ an.outcome.kind = "returned"
        /\ LET v == an.outcome.value
               w == an.width
               h == an.height
               tw == optimal_dimensions[an.platform][1]
               th == optimal_dimensions[an.platform][2]
           IN  /\ FracCmp(v.dimension_score[1], v.dimension_score[2],
                          Min(w, tw) * Max(h, th) + Min(h, th) * Max(w, tw),
                          2 * Max(w, tw) * Max(h, th)) = 0
               /\ IF w * h >= 1000000
                  THEN FracEq(v.resolution_score, <<1, 1>>)
                  ELSE v.resolution_score = <<w * h, 1000000>>
               /\ ScoreCmp(v, 0, 1) = 1
               /\ ScoreCmp(v, 1, 1) <= 0
               /\ ScoreCmp(v, 1, 1) = 0 <=> (w = tw /\ h = th /\ w * h >= 1000000)

\* an instagram image of instagram's own size scores exactly 1
C20_Witness ==
    /\ ScoreDone
    /\ an.platform = "instagram"
    /\ an.width = 1080 /\ an.height = 1080
    /\ an.outcome.kind = "returned"
    /\ ScoreCmp(an.outcome.value, 1, 1) = 0

\* the keys of the dict analyze_color_distribution returns after clustering
ColorStatistics == {"dominant_colors", "color_harmony", "brightness", "contrast"}

\* C23: when clustering is unavailable analyze_color_distribution returns the
\* three gray placeholder colours together with a fallback flag, a key beyond
\* the colour statistics, and never the placeholders without that flag.
C23_FallbackFlagged ==
    (AnalyzerDone("analyze_color_distribution") /\ an.readable /\ ~an.sklearn) =>
        /\ an.outcome.kind = "returned"
        /\ an.outcome.value.dominant_colors = FallbackColors
        /\ DOMAIN an.outcome.value \ ColorStatistics # {}

\* the score of an image a transformer conformed to platform an.platform
ConformedScored ==
    /\ AnalyzerDone("platform_optimization_score")
    /\ an.readable
    /\ an.platform \in Platform
    /\ <<an.width, an.height>> \in {PLATFORM_SPECS[an.platform].dimensions,
                                    platform_specs[an.platform].dimensions}

\* C29: the transformers and the evaluator agree on every platform's size: an
\* image with the platform's dimensions of PLATFORM_SPECS and platform_specs
\* gets dimension score 1 and a platform_optimization of at least 0.8, below
\* which evaluate_ad adds the "Optimize dimensions" hint.
C29_ConformedImageScores ==
    /\ \A p \in Platform :
          /\ PLATFORM_SPECS[p].dimensions = platform_specs[p].dimensions
          /\ PLATFORM_SPECS[p].dimensions = optimal_dimensions[p]
    /\ ConformedScored =>
          /\ an.outcome.kind = "returned"
          /\ FracEq(an.outcome.value.dimension_score, One)
          /\ ScoreCmp(an.outcome.value, 8, 10) >= 0

\* C29 witness: a conformed facebook image, whose 756000 pixels keep the
\* resolution score under 1, scored below 1 and not below 0.8
C29_Witness ==
    /\ ConformedScored
    /\ an.platform = "facebook"
    /\ ScoreCmp(an.outcome.value, 1, 1) < 0
    /\ ScoreCmp(an.outcome.value, 8, 10) > 0

(***************************************************************************)
(* The entry points and the order of their steps:                          *)
(*   AdEvaluator.evaluate_ad, AdImageGenerator.generate_ad_image and       *)
(*   generate_ad_image of simple_image_service.py.                         *)
(* rq.steps lists the operations a request has entered, in order.          *)
(***************************************************************************)
Analyzers ==
    {"analyze_color_distribution", "analyze_composition",
     "analyze_text_readability", "platform_optimization_score"}

ExternalCalls == {"chat.completions.create", "images.generate"}

FileWrites == {"save_optimized_image"}

\* the image files a request names: one that cannot be decoded and white
\* images of 1 x 1 and 2 x 2 pixels
WhiteImage(readable, width, height) ==
    [readable |-> readable, width |-> width, height |-> height,
     colour |-> <<255, 255, 255>>, gray |-> [k \in 1..(width * height) |-> 255]]

RequestImages == {WhiteImage(FALSE, 2, 2), WhiteImage(TRUE, 1, 1), WhiteImage(TRUE, 2, 2)}

\* text_content / text_overlay by its length: none, "Buy Now"
RequestTextLengths == {0, 7}

\* what the AI collaborator's call ends in: a judgment with every key, a
\* judgment without the score keys, an exception
AIOutcomes == {"judgment", "incomplete_judgment", "failure"}

Pending == [kind |-> "pending"]

\* a plausible slip: the judgment is requested first and the analyzers run
\* when it is back, whatever they end in
evaluate_ad_to_await_judgment_first(image, text_length, platform, sklearn) ==
    [steps |-> <<"get_ai_evaluation", "chat.completions.create",
                 "analyze_color_distribution", "analyze_composition",
                 "analyze_text_readability", "platform_optimization_score">>,
     defaulted |-> FALSE,
     outcome |-> Pending]

\* evaluate_ad up to its await: the four analyzers in order, then
\* get_ai_evaluation up to the call of the collaborator; an exception ends it
evaluate_ad_to_await(image, text_length, platform, sklearn) ==
    LET color_analysis ==
            analyze_color_distribution(image.readable, image.width, image.height, image.colour, sklearn)
        composition_analysis == analyze_composition(image.readable, image)
        text_analysis == analyze_text_readability(image.readable, text_length, << >>).outcome
        platform_score ==
            platform_optimization_score(image.readable, image.width, image.height, platform)
    IN  IF color_analysis.kind = "raised"
        THEN [steps |-> <<"analyze_color_distribution">>,
              defaulted |-> FALSE, outcome |-> color_analysis]
        ELSE IF composition_analysis.kind = "raised"
        THEN [steps |-> <<"analyze_color_distribution", "analyze_composition">>,
              defaulted |-> FALSE, outcome |-> composition_analysis]
        ELSE IF text_analysis.kind = "raised"
        THEN [steps |-> <<"analyze_color_distribution", "analyze_composition",
                          "analyze_text_readability">>,
              defaulted |-> FALSE, outcome |-> text_analysis]
        ELSE IF platform_score.kind = "raised"
        THEN [steps |-> <<"analyze_color_distribution", "analyze_composition",
                          "analyze_text_readability", "platform_optimization_score">>,
              defaulted |-> FALSE, outcome |-> platform_score]
        ELSE IF platform \notin Platform
        THEN [steps |-> <<"analyze_color_distribution", "analyze_composition",
                          "analyze_text_readability", "platform_optimization_score",
                          "get_ai_evaluation">>,
              defaulted |-> platform_score.value.defaulted,
              outcome |-> Raised("AttributeError")]
        ELSE [steps |-> <<"analyze_color_distribution", "analyze_composition",
                          "analyze_text_readability", "platform_optimization_score",
                          "get_ai_evaluation", "chat.completions.create">>,
              defaulted |-> platform_score.value.defaulted,
              outcome |-> Pending]

\* evaluate_ad after the await: a failure of the collaborator is replaced by
\* the default judgment, a judgment without the score keys raises KeyError
evaluate_ad_from_await(ai) ==
    IF ai = "incomplete_judgment" THEN Raised("KeyError") ELSE Returned("AdEvaluation")

\* AdImageGenerator.generate_ad_image; generate_base_image has no await of
\* its own and replaces a failed generation by a placeholder
generate_ad_image(platform, text_length, dalle_ok) ==
    IF platform \notin DOMAIN PLATFORM_SPECS
    THEN [steps |-> << >>, defaulted |-> FALSE, outcome |-> Raised("KeyError")]
    ELSE [steps |-> <<"enhance_prompt_for_ads", "images.generate">>
                    \o (IF dalle_ok THEN <<"requests.get", "resize_and_crop">>
                        ELSE <<"Image.new">>)
                    \o (IF text_length > 0 THEN <<"add_text_overlay">> ELSE << >>)
                    \o <<"optimize_for_platform", "save_optimized_image">>,
          defaulted |-> FALSE,
          outcome |-> Returned("GeneratedAd")]

\* simple_image_service.py: the sizes it knows, by platform name
platform_sizes ==
    [p \in {"instagram", "tiktok", "facebook", "pinterest"} |->
        CASE p = "instagram" -> "1024x1024"
          [] p = "tiktok" -> "1024x1792"
          [] p = "facebook" -> "1792x1024"
          [] p = "pinterest" -> "1024x1792"]

DefaultSize == "1024x1024"

StyleSamples == {"minimalist", "vaporwave"}

\* generate_ad_image of simple_image_service.py
simple_generate_ad_image(platform, style, api_ok) ==
    LET size == IF platform \in DOMAIN platform_sizes
                THEN platform_sizes[platform] ELSE DefaultSize
    IN  [steps |-> <<"images.generate">>,
         defaulted |-> platform \notin DOMAIN platform_sizes,
         outcome |-> IF api_ok
                     THEN Returned([platform |-> platform, size |-> size])
                     ELSE Raised("HTTPException")]

InitRequest ==
    /\ rz = RzIdle
    /\ cmp = CmpIdle
    /\ img = << >>
    /\ disk = NoFile
    /\ prev = NoPrev
    /\ ev = EvIdle
    /\ io = IoIdle
    /\ an = AnIdle
    /\ rq = RqIdle
    /\ seen = NotSeen
    /\ fsc = FscIdle
    /\ par = ParIdle
    /\ lg = LgIdle

\* evaluate_ad is called and runs to its await or to an exception
CallEvaluateAd ==
    \E image \in RequestImages, text_length \in RequestTextLengths,
       p \in PlatformIds, sklearn \in BOOLEAN :
        LET r == evaluate_ad_to_await(image, text_length, p, sklearn)
        IN  /\ rq.pc = "idle"
            /\ rq' = [pc |-> IF r.outcome = Pending THEN "await_ai" ELSE "done",
                      entry |-> "evaluate_ad", platform |-> p, image |-> image,
                      text_length |-> text_length, sklearn |-> sklearn,
                      steps |-> r.steps, defaulted |-> r.defaulted,
                      outcome |-> r.outcome]
            /\ UNCHANGED <<rz, cmp, img, disk, prev, ev, io, an, seen, fsc, par, lg>>

\* the collaborator's call ends and evaluate_ad runs to its end
JudgmentReturns ==
    \E ai \in AIOutcomes :
        /\ rq.pc = "await_ai"
        /\ rq' = [rq EXCEPT !.pc = "done", !.outcome = evaluate_ad_from_await(ai)]
        /\ UNCHANGED <<rz, cmp, img, disk, prev, ev, io, an, seen, fsc, par, lg>>

\* one call of AdImageGenerator.generate_ad_image
CallGenerateAdImage ==
    \E p \in PlatformIds, text_length \in RequestTextLengths, dalle_ok \in BOOLEAN :
        LET r == generate_ad_image(p, text_length, dalle_ok)
        IN  /\ rq.pc = "idle"
            /\ rq' = [pc |-> "done", entry |-> "generate_ad_image", platform |-> p,
                      text_length |-> text_length, dalle_ok |-> dalle_ok,
                      steps |-> r.steps, defaulted |-> r.defaulted,
                      outcome |-> r.outcome]
            /\ UNCHANGED <<rz, cmp, img, disk, prev, ev, io, an, seen, fsc, par, lg>>

\* one POST /generate-ad-image of the simple image service
CallSimpleGenerateAdImage ==
    \E p \in PlatformIds, style \in StyleSamples, api_ok \in BOOLEAN :
        LET r == simple_generate_ad_image(p, style, api_ok)
        IN  /\ rq.pc = "idle"
            /\ rq' = [pc |-> "done", entry |-> "simple_image_service",
                      platform |-> p, style |-> style, api_ok |-> api_ok,
                      steps |-> r.steps, defaulted |-> r.defaulted,
                      outcome |-> r.outcome]
            /\ UNCHANGED <<rz, cmp, img, disk, prev, ev, io, an, seen, fsc, par, lg>>

\* the caller takes the result or the exception
RequestReturned ==
    /\ rq.pc = "done"
    /\ rq' = RqIdle
    /\ UNCHANGED <<rz, cmp, img, disk, prev, ev, io, an, seen, fsc, par, lg>>

NextRequest ==
    \/ CallEvaluateAd
    \/ JudgmentReturns
    \/ CallGenerateAdImage
    \/ CallSimpleGenerateAdImage
    \/ RequestReturned

SpecRequest == InitRequest /\ [][NextRequest]_vars

\* the steps of the three kinds the claims speak of
WorkDone(steps) ==
    {i \in 1..Len(steps) : steps[i] \in Analyzers \cup ExternalCalls \cup FileWrites}

\* C11: a platform identifier outside the fixed set is rejected with an
\* unknown-platform error before any processing: no entry point performs any
\* analysis, external call or file write for it, and none substitutes a default
\* for it.
C11_UnknownPlatformRejected ==
    (rq.pc \in {"await_ai", "done"} /\ rq.platform \notin Platform) =>
        /\ rq.outcome = Raised("KeyError")
        /\ WorkDone(rq.steps) = {}
        /\ ~rq.defaulted

\* C12: for an unreadable image evaluate_ad fails with the one condition
\* InvalidImage, raised before any of the four analyzers runs and before the AI
\* collaborator is called.
C12_InvalidImageFirst ==
    (rq.pc \in {"await_ai", "done"} /\ rq.entry = "evaluate_ad" /\ ~rq.image.readable) =>
        /\ rq.outcome = Raised("InvalidImage")
        /\ WorkDone(rq.steps) = {}

\* the positions of operation name in steps
Positions(steps, name) == {i \in 1..Len(steps) : steps[i] = name}

\* the analyzers in the order evaluate_ad calls them
AnalyzerOrder ==
    <<"analyze_color_distribution", "analyze_composition",
      "analyze_text_readability", "platform_optimization_score">>

\* an evaluate_ad that has run to its await or to its end
EvaluateAdRan == rq.pc \in {"await_ai", "done"} /\ rq.entry = "evaluate_ad"

\* the order of the steps of one evaluate_ad: the collaborator is invoked at
\* most once, after the four analyzers in their order, and not after an
\* analyzer raised; a call suspended on the collaborator has invoked it
AnalyzersBeforeJudgment ==
    EvaluateAdRan =>
        LET calls == Positions(rq.steps, "chat.completions.create")
        IN  /\ Cardinality(calls) <= 1
            /\ \A i \in calls :
                  /\ i > Len(AnalyzerOrder)
                  /\ SubSeq(rq.steps, 1, Len(AnalyzerOrder)) = AnalyzerOrder
            /\ rq.steps[Len(rq.steps)] \in Analyzers => calls = {}
            /\ rq.pc = "await_ai" => Cardinality(calls) = 1
            /\ rq.outcome = Returned("AdEvaluation") => Cardinality(calls) = 1

\* from the await, evaluate_ad runs to its end in one step in which nothing
\* else is entered
NoFurtherSuspension ==
    rq.pc = "await_ai" => (rq'.pc = "done" /\ rq'.steps = rq.steps)

\* C26: within one evaluate_ad the four analyzers complete before the AI
\* collaborator is invoked; it is invoked exactly once per call and not at all
\* when an analyzer fails; after it returns, scoring and suggestion assembly
\* run to the end with no further suspension point.
C26_AnalyzersThenOneJudgment ==
    [](AnalyzersBeforeJudgment) /\ [][NoFurtherSuspension]_vars

\* C26 witness: an evaluation that got its judgment and returned a report
C26_Witness ==
    /\ EvaluateAdRan
    /\ rq.pc = "done"
    /\ rq.outcome = Returned("AdEvaluation")
    /\ Cardinality(Positions(rq.steps, "chat.completions.create")) = 1

(***************************************************************************)
(* The scores of evaluate_ad in double arithmetic.  A non-negative double  *)
(* below 2^14 that is zero or at least 2^-17 is a multiple of 2^-70; it is *)
(* held as that multiple, a natural number written in limbs of 14 bits,    *)
(* lowest first, without leading zero limbs (zero is the empty sequence).  *)
(* Every operation computes the exact result and rounds it to a 53 bit     *)
(* significand, ties to even, as IEEE-754 does.                            *)
(***************************************************************************)
LimbBits == 14
LimbBase == Pow2(LimbBits)

\* the limbs after the binary point: 5 * 14 = 70 bits
FracLimbs == 5

SignificandBits == 53

RECURSIVE Norm(_)
Norm(x) ==
    IF x = << >> THEN x
    ELSE IF x[Len(x)] = 0 THEN Norm(SubSeq(x, 1, Len(x) - 1)) ELSE x

Limb(x, i) == IF i <= Len(x) THEN x[i] ELSE 0

Zeros(n) == [i \in 1..n |-> 0]

\* the limbs from i on of x + y + carry
RECURSIVE AddFrom(_, _, _, _)
AddFrom(x, y, i, carry) ==
    IF i > Len(x) /\ i > Len(y)
    THEN IF carry = 0 THEN << >> ELSE <<carry>>
    ELSE LET s == Limb(x, i) + Limb(y, i) + carry
         IN  <<s % LimbBase>> \o AddFrom(x, y, i + 1, s \div LimbBase)

BigAdd(x, y) == AddFrom(x, y, 1, 0)

\* the limbs from i on of x * k + carry, for one limb k
RECURSIVE MulSmallFrom(_, _, _, _)
MulSmallFrom(x, k, i, carry) ==
    IF i > Len(x)
    THEN IF carry = 0 THEN << >> ELSE <<carry>>
    ELSE LET s == x[i] * k + carry
         IN  <<s % LimbBase>> \o MulSmallFrom(x, k, i + 1, s \div LimbBase)

MulSmall(x, k) == Norm(MulSmallFrom(x, k, 1, 0))

\* x times the limbs from i on of y
RECURSIVE MulFrom(_, _, _)
MulFrom(x, y, i) ==
    IF i > Len(y) THEN << >>
    ELSE BigAdd(Zeros(i - 1) \o MulSmall(x, y[i]), MulFrom(x, y, i + 1))

BigMul(x, y) == Norm(MulFrom(x, y, 1))

\* long division of the limbs i down to 1 of x by d, r carried in from above
RECURSIVE DivSmallFrom(_, _, _, _)
DivSmallFrom(x, d, i, r) ==
    IF i = 0 THEN [q |-> << >>, r |-> r]
    ELSE LET cur == r * LimbBase + x[i]
             rest == DivSmallFrom(x, d, i - 1, cur % d)
         IN  [q |-> Append(rest.q, cur \div d), r |-> rest.r]

\* quotient and remainder of x by d, 0 < d < 2^14
DivSmall(x, d) ==
    LET res == DivSmallFrom(x, d, Len(x), 0)
    IN  [q |-> Norm(res.q), r |-> res.r]

BigBitLen(x) ==
    IF x = << >> THEN 0
    ELSE (Len(x) - 1) * LimbBits + FloorLog2(x[Len(x)]) + 1

\* x shifted right by k bits, and whether a bit shifted out was set
ShiftRight(x, k) ==
    LET limbs == k \div LimbBits
        res == DivSmall(SubSeq(x, limbs + 1, Len(x)), Pow2(k % LimbBits))
    IN  [q |-> res.q,
         sticky |-> res.r # 0 \/ \E i \in 1..Min(limbs, Len(x)) : x[i] # 0]

ShiftLeft(x, k) == Norm(Zeros(k \div LimbBits) \o MulSmall(x, Pow2(k % LimbBits)))

\* x <= y, both without leading zero limbs: by the limbs i down to 1
RECURSIVE BigLeqFrom(_, _, _)
BigLeqFrom(x, y, i) ==
    IF i = 0 THEN TRUE
    ELSE IF x[i] # y[i] THEN x[i] < y[i]
    ELSE BigLeqFrom(x, y, i - 1)

BigLeq(x, y) ==
    IF Len(x) # Len(y) THEN Len(x) < Len(y) ELSE BigLeqFrom(x, y, Len(x))

\* the exact value x (plus a fraction of one unit when sticky) rounded to 53
\* significant bits, to nearest, ties to even
RoundToDouble(x, sticky) ==
    LET length == BigBitLen(x)
    IN  IF length <= SignificandBits THEN x
        ELSE LET k == length - SignificandBits
                 withGuard == ShiftRight(x, k - 1)
                 guard == withGuard.q[1] % 2 = 1
                 kept == ShiftRight(withGuard.q, 1).q
                 up == guard /\ (withGuard.sticky \/ sticky \/ kept[1] % 2 = 1)
             IN  ShiftLeft(IF up THEN BigAdd(kept, <<1>>) ELSE kept, k)

\* x + y
FloatAdd(x, y) == RoundToDouble(BigAdd(x, y), FALSE)

\* x * y: the exact product is a multiple of 2^-140
FloatMul(x, y) ==
    LET product == RoundToDouble(BigMul(x, y), FALSE)
    IN  SubSeq(product, FracLimbs + 1, Len(product))

\* x / d for a whole number d: the quotient with 14 further bits, rounded
FloatDiv(x, d) ==
    LET res == DivSmall(<<0>> \o x, d)
        quotient == RoundToDouble(res.q, res.r # 0)
    IN  SubSeq(quotient, 2, Len(quotient))

\* the double of a whole number, and of the decimal literal n / d
FloatOfInt(n) == Norm(Zeros(FracLimbs) \o <<n>>)
FloatOf(n, d) == FloatDiv(FloatOfInt(n), d)

\* np.mean of a short list: the sum from the left, divided by the count
RECURSIVE FloatSum(_)
FloatSum(values) ==
    IF values = << >> THEN << >>
    ELSE FloatAdd(FloatSum(SubSeq(values, 1, Len(values) - 1)), values[Len(values)])

np_mean(values) == FloatDiv(FloatSum(values), Len(values))

\* a plausible slip: platform_optimization left out of the overall mean
overall_score_without_platform(engagement_factors, engagement_prediction) ==
    np_mean(SubSeq(engagement_factors, 1, 3) \o <<engagement_prediction>>)

\* overall_score = np.mean([visual_appeal, text_readability, brand_alignment,
\*                          platform_optimization, engagement_prediction])
overall_score(engagement_factors, engagement_prediction) ==
    np_mean(engagement_factors \o <<engagement_prediction>>)

\* AI scores inside and outside 0..10 (tenths); negative scores are left to
\* the exact arithmetic of SpecEval
AIScoresInDoubles == {0, 69, 70, 100, 150}

InitScore ==
    /\ rz = RzIdle
    /\ cmp = CmpIdle
    /\ img = << >>
    /\ disk = NoFile
    /\ prev = NoPrev
    /\ ev = EvIdle
    /\ io = IoIdle
    /\ an = AnIdle
    /\ rq = RqIdle
    /\ seen = NotSeen
    /\ fsc = FscIdle
    /\ par = ParIdle
    /\ lg = LgIdle

\* the "Combine scores" block of evaluate_ad.  The analyzer results are
\* hundredths, the AI scores tenths (69 is 6.9); every intermediate double is
\* computed once and named as the code names it
CombineScores ==
    \E ch \in HarmonySamples, bs \in BalanceSamples, rs \in ReadabilitySamples,
       ps \in PlatformScoreSamples, av \in AIScoresInDoubles, ab \in AIScoresInDoubles :
    \E color_harmony \in {FloatOf(ch, 100)}, balance_score \in {FloatOf(bs, 100)},
       ai_visual_appeal \in {FloatOf(av, 10)}, ai_brand_alignment \in {FloatOf(ab, 10)},
       three_tenths \in {FloatOf(3, 10)}, four_tenths \in {FloatOf(4, 10)},
       text_readability \in {FloatOf(rs, 100)},
       platform_optimization \in {FloatOf(ps, 100)} :
    \E harmony_term \in {FloatMul(color_harmony, three_tenths)},
       balance_term \in {FloatMul(balance_score, four_tenths)},
       ai_visual_tenth \in {FloatDiv(ai_visual_appeal, 10)},
       brand_alignment \in {FloatDiv(ai_brand_alignment, 10)} :
    \E technical_terms \in {FloatAdd(harmony_term, balance_term)},
       ai_term \in {FloatMul(ai_visual_tenth, three_tenths)} :
    \E visual_appeal \in {FloatAdd(technical_terms, ai_term)} :
    \E engagement_factors \in {<<visual_appeal, text_readability, brand_alignment,
                                  platform_optimization>>} :
    \E engagement_prediction \in {np_mean(engagement_factors)} :
        /\ fsc.pc = "idle"
        /\ fsc' = [pc |-> "done",
                   color_harmony |-> ch, balance_score |-> bs,
                   readability_score |-> rs, platform_score |-> ps,
                   ai_visual_appeal |-> av, ai_brand_alignment |-> ab,
                   report |->
                       [visual_appeal |-> visual_appeal,
                        text_readability |-> text_readability,
                        brand_alignment |-> brand_alignment,
                        platform_optimization |-> platform_optimization,
                        engagement_prediction |-> engagement_prediction,
                        overall_score |->
                            overall_score(engagement_factors, engagement_prediction)]]
        /\ UNCHANGED <<rz, cmp, img, disk, prev, ev, io, an, rq, seen, par, lg>>

\* the report is returned
ScoresReturned ==
    /\ fsc.pc = "done"
    /\ fsc' = FscIdle
    /\ UNCHANGED <<rz, cmp, img, disk, prev, ev, io, an, rq, seen, par, lg>>

NextScore == CombineScores \/ ScoresReturned

SpecScore == InitScore /\ [][NextScore]_vars

\* C27 as claimed: in every report overall_score equals engagement_prediction.
C27_OverallEqualsEngagement ==
    fsc.pc = "done" => fsc.report.overall_score = fsc.report.engagement_prediction

\* |x - y| <= y / 2^51
WithinRounding(x, y) ==
    /\ BigLeq(ShiftLeft(x, 51), BigAdd(ShiftLeft(y, 51), y))
    /\ BigLeq(ShiftLeft(y, 51), BigAdd(ShiftLeft(x, 51), y))

\* C27 as the code has it: overall_score equals engagement_prediction up to
\* the rounding of the two means: they differ by at most 2^-51 of
\* engagement_prediction, and are equal when the four composites are.
C27_OverallNearEngagement ==
    fsc.pc = "done" =>
        /\ WithinRounding(fsc.report.overall_score, fsc.report.engagement_prediction)
        /\ (/\ fsc.report.visual_appeal = fsc.report.text_readability
            /\ fsc.report.text_readability = fsc.report.brand_alignment
            /\ fsc.report.brand_alignment = fsc.report.platform_optimization)
           => fsc.report.overall_score = fsc.report.engagement_prediction

\* C27 witness: a report whose two means differ in the last place
C27_Witness ==
    /\ fsc.pc = "done"
    /\ fsc.report.overall_score # fsc.report.engagement_prediction
    /\ WithinRounding(fsc.report.overall_score, fsc.report.engagement_prediction)

(***************************************************************************)
(* Two requests in flight on one event loop.  A coroutine runs until it    *)
(* awaits; there another request may run.  par.req is the position and the *)
(* locals of each request; what the requests share is par.table (the       *)
(* module-level PLATFORM_SPECS), par.files (the output directory) and      *)
(* par.issued (the uuid4 values drawn so far).  generate_base_image has no *)
(* suspension of its own, so the event loop interleaves less than this     *)
(* model, which lets the other request run at every await.                 *)
(***************************************************************************)
InFlight == {"first request", "second request"}

\* uuid.uuid4(): a value not drawn before
UuidPool == {"uuid a", "uuid b", "uuid c"}

ConcurrentPlatforms == {"instagram", "facebook"}

\* dimensions=None or a caller's own size
DimensionArguments == {None, "640x480"}

\* a plausible slip: the file is named after the platform alone
image_filename_by_platform(image_id, platform) == <<"ad", platform>>

\* image_filename = f"{image_id}_{platform.value}.png"
image_filename(image_id, platform) == <<image_id, platform>>

NoRequest == [pc |-> "idle"]

\* the GeneratedAd of a generate_ad_image that ran alone: the size of the
\* platform unless the caller gave one, the steps of the sequential run
GeneratedAlone(platform, dimensions, text_length, dalle_ok, image_id) ==
    [image_path |-> image_filename(image_id, platform),
     platform |-> platform,
     dimensions |-> IF dimensions = None THEN PLATFORM_SPECS[platform].dimensions
                                         ELSE dimensions,
     final_quality |-> PLATFORM_SPECS[platform].compression,
     steps |-> generate_ad_image(platform, text_length, dalle_ok).steps]

InitConcurrent ==
    /\ rz = RzIdle
    /\ cmp = CmpIdle
    /\ img = << >>
    /\ disk = NoFile
    /\ prev = NoPrev
    /\ ev = EvIdle
    /\ io = IoIdle
    /\ an = AnIdle
    /\ rq = RqIdle
    /\ seen = NotSeen
    /\ fsc = FscIdle
    /\ par = [req |-> [s \in InFlight |-> NoRequest],
              table |-> PLATFORM_SPECS,
              files |-> << >>,
              issued |-> {}]
    /\ lg = LgIdle

\* request s calls evaluate_ad, which runs to its await or to an exception
EvaluateAdStarts(s) ==
    \E image \in RequestImages, p \in ConcurrentPlatforms :
        LET r == evaluate_ad_to_await(image, 7, p, TRUE)
        IN  /\ par.req[s].pc = "idle"
            /\ par' = [par EXCEPT !.req[s] =
                          [pc |-> IF r.outcome = Pending THEN "await_ai" ELSE "done",
                           entry |-> "evaluate_ad", platform |-> p, image |-> image,
                           steps |-> r.steps, outcome |-> r.outcome]]
            /\ UNCHANGED <<rz, cmp, img, disk, prev, ev, io, an, rq, seen, fsc, lg>>

\* the collaborator's call of request s ends; evaluate_ad runs to its end
EvaluateAdResumes(s) ==
    \E ai \in AIOutcomes :
        /\ par.req[s].pc = "await_ai"
        /\ par' = [par EXCEPT !.req[s] =
                      [pc |-> "done", ai |-> ai,
                       outcome |-> evaluate_ad_from_await(ai)] @@ par.req[s]]
        /\ UNCHANGED <<rz, cmp, img, disk, prev, ev, io, an, rq, seen, fsc, lg>>

\* request s calls generate_ad_image, which reads the platform's spec, sets
\* its dimensions and awaits generate_base_image
GenerateAdImageStarts(s) ==
    \E p \in ConcurrentPlatforms, dimensions \in DimensionArguments,
       text_length \in RequestTextLengths :
        /\ par.req[s].pc = "idle"
        /\ par.issued # UuidPool
        /\ par' = [par EXCEPT !.req[s] =
                      [pc |-> "await_base_image", entry |-> "generate_ad_image",
                       platform |-> p, argument |-> dimensions,
                       text_length |-> text_length,
                       dimensions |-> IF dimensions = None
                                      THEN par.table[p].dimensions ELSE dimensions]]
        /\ UNCHANGED <<rz, cmp, img, disk, prev, ev, io, an, rq, seen, fsc, lg>>

\* the base image of request s is there (generated or the placeholder); the
\* overlay, optimize_for_platform, uuid4, save_optimized_image, which reads
\* the platform's spec again, and the return
GenerateAdImageResumes(s) ==
    \E dalle_ok \in BOOLEAN, image_id \in UuidPool \ par.issued :
        LET r == par.req[s]
            image_path == image_filename(image_id, r.platform)
            result == [image_path |-> image_path,
                       platform |-> r.platform,
                       dimensions |-> r.dimensions,
                       final_quality |-> par.table[r.platform].compression,
                       steps |-> generate_ad_image(r.platform, r.text_length, dalle_ok).steps]
        IN  /\ r.pc = "await_base_image"
            /\ par' = [par EXCEPT !.req[s] =
                                      [pc |-> "done", dalle_ok |-> dalle_ok,
                                       image_id |-> image_id,
                                       outcome |-> Returned(result)] @@ r,
                                  !.issued = par.issued \cup {image_id},
                                  !.files = (image_path :> [writer |-> image_id,
                                                            size |-> r.dimensions])
                                            @@ par.files]
            /\ UNCHANGED <<rz, cmp, img, disk, prev, ev, io, an, rq, seen, fsc, lg>>

\* the caller of request s has its result or exception
RequestLeaves(s) ==
    /\ par.req[s].pc = "done"
    /\ par' = [par EXCEPT !.req[s] = NoRequest]
    /\ UNCHANGED <<rz, cmp, img, disk, prev, ev, io, an, rq, seen, fsc, lg>>

NextConcurrent ==
    \E s \in InFlight :
        \/ EvaluateAdStarts(s)
        \/ EvaluateAdResumes(s)
        \/ GenerateAdImageStarts(s)
        \/ GenerateAdImageResumes(s)
        \/ RequestLeaves(s)

SpecConcurrent == InitConcurrent /\ [][NextConcurrent]_vars

Finished(s, entry) == par.req[s].pc = "done" /\ par.req[s].entry = entry

\* what a finished request returned is what it returns when run alone
SameAsAlone(s) ==
    LET r == par.req[s]
    IN  /\ Finished(s, "evaluate_ad") =>
              LET alone == evaluate_ad_to_await(r.image, 7, r.platform, TRUE)
              IN  /\ r.steps = alone.steps
                  /\ r.outcome = IF alone.outcome = Pending
                                 THEN evaluate_ad_from_await(r.ai) ELSE alone.outcome
        /\ Finished(s, "generate_ad_image") =>
              r.outcome = Returned(GeneratedAlone(r.platform, r.argument, r.text_length,
                                                  r.dalle_ok, r.image_id))

\* the file a finished generation names is the one it wrote, and no other
\* finished generation names it
OwnFile(s) ==
    Finished(s, "generate_ad_image") =>
        LET image_path == par.req[s].outcome.value.image_path
        IN  /\ image_path \in DOMAIN par.files
            /\ par.files[image_path].writer = par.req[s].image_id
            /\ par.files[image_path].size = par.req[s].outcome.value.dimensions
            /\ \A t \in InFlight \ {s} :
                  Finished(t, "generate_ad_image") =>
                      par.req[t].outcome.value.image_path # image_path

\* C22: concurrent requests do not interfere: however two evaluate_ad or
\* generate_ad_image requests are interleaved at their awaits, each returns
\* what it returns when run alone, two generation requests write to distinct
\* files, and the platform spec table is never modified.
C22_NoInterference ==
    /\ par.table = PLATFORM_SPECS
    /\ \A s \in InFlight : SameAsAlone(s) /\ OwnFile(s)

\* C22 witness: two generations for the same platform, in flight together,
\* have both finished
C22_Witness ==
    /\ \A s \in InFlight : Finished(s, "generate_ad_image")
    /\ par.req["first request"].platform = par.req["second request"].platform
    /\ par.req["first request"].argument # par.req["second request"].argument

(***************************************************************************)
(* services/logger.py: the logging database and the calls that write it,   *)
(* and the POST /generate-ad-image handler of main.py, which runs inside   *)
(* log_request_context.  A table is the sequence of the timestamps of its  *)
(* rows; lg.db is what is committed.  The sessions are autocommit=False:   *)
(* what a call changed is pending until get_db_session commits on leaving  *)
(* the with block, and is discarded by its rollback.                       *)
(***************************************************************************)
LOG_TABLES_ONLY == <<"request_logs", "error_logs", "performance_logs">>

\* a table of the database that is no log table
BusinessTable == "business_data"

\* how far the clock of the model runs, and how many rows a table takes
MaxClock == 3
MaxRows == 2

\* the days argument of cleanup_old_logs, in units of the clock
DaysSamples == {0, 1, 2}

\* where the database fails in a cleanup: nowhere, opening the session, the
\* DELETE on one table, the commit
DbFailures ==
    {"none", "session", "commit"} \cup {LOG_TABLES_ONLY[i] : i \in 1..Len(LOG_TABLES_ONLY)}

\* a plausible slip: rows at the cutoff are deleted too
OlderThanOrAt(timestamp, cutoff_date) == timestamp <= cutoff_date

\* filter(log_model.timestamp < cutoff_date)
OlderThan(timestamp, cutoff_date) == timestamp < cutoff_date

\* the rows of a table that the DELETE leaves
Kept(rows, cutoff_date) ==
    LET Stays(timestamp) == ~OlderThan(timestamp, cutoff_date)
    IN  SelectSeq(rows, Stays)

\* the loop over LOG_TABLES_ONLY from its i-th entry on, in one session:
\* the pending tables, the count so far, and whether a DELETE raised
RECURSIVE DeleteFrom(_, _, _, _, _)
DeleteFrom(pending, cutoff_date, i, total_deleted, failure) ==
    IF i > Len(LOG_TABLES_ONLY)
    THEN [pending |-> pending, total_deleted |-> total_deleted, raised |-> FALSE]
    ELSE IF failure = LOG_TABLES_ONLY[i]
    THEN [pending |-> pending, total_deleted |-> total_deleted, raised |-> TRUE]
    ELSE LET table_name == LOG_TABLES_ONLY[i]
             left == Kept(pending[table_name], cutoff_date)
             deleted_count == Len(pending[table_name]) - Len(left)
         IN  DeleteFrom([pending EXCEPT ![table_name] = left], cutoff_date, i + 1,
                        total_deleted + deleted_count, failure)

\* cleanup_old_logs(days): leaving the with block commits; an exception in
\* the block or in the commit is rolled back by get_db_session and the outer
\* except returns 0
cleanup_old_logs(db, now, days, failure) ==
    LET cutoff_date == now - days
        session == DeleteFrom(db, cutoff_date, 1, 0, failure)
    IN  IF failure \in {"session", "commit"} \/ session.raised
        THEN [db |-> db, returned |-> 0]
        ELSE [db |-> session.pending, returned |-> session.total_deleted]

\* log_request, log_error, log_performance: one row with timestamp utcnow()
\* added in a session of its own; when the database fails nothing is stored
\* and the except branch falls back to the standard logger
WriteLog(db, table_name, now, stored) ==
    IF stored THEN [db EXCEPT ![table_name] = Append(@, now)] ELSE db

\* how the body of a with log_request_context(...) block ends: it completes,
\* it raises an Exception, it raises a BaseException that is no Exception
\* (asyncio.CancelledError at an await, KeyboardInterrupt, SystemExit)
BodyOutcomes == {"completed", "Exception", "BaseException"}

\* a plausible slip: a failed write of the request log reaches the caller
log_request_context_raising(db, now, body, request_stored, error_stored) ==
    [db |-> db,
     attempts |-> <<[table_name |-> "request_logs", success |-> body = "completed"]>>,
     caller |-> IF request_stored THEN body ELSE "Exception"]

\* log_request_context from the end of the body on: the log calls it makes,
\* in order, and what the caller of the with block sees
log_request_context(db, now, body, request_stored, error_stored) ==
    IF body = "completed"
    THEN [db |-> WriteLog(db, "request_logs", now, request_stored),
          attempts |-> <<[table_name |-> "request_logs", success |-> TRUE]>>,
          caller |-> "completed"]
    ELSE IF body = "Exception"
    THEN [db |-> WriteLog(WriteLog(db, "request_logs", now, request_stored),
                          "error_logs", now, error_stored),
          attempts |-> <<[table_name |-> "request_logs", success |-> FALSE],
                         [table_name |-> "error_logs", success |-> FALSE]>>,
          caller |-> "Exception"]
    ELSE [db |-> db, attempts |-> << >>, caller |-> "BaseException"]

\* the parameters of AdImageGenerator.generate_ad_image, and the keywords the
\* handler of POST /generate-ad-image calls it with
GenerateAdImageParameters ==
    {"prompt", "platform", "brand_colors", "text_overlay", "style", "dimensions"}

HandlerKeywords ==
    {"prompt", "platform", "brand_colors", "text_overlay", "style", "request_id"}

\* a call with a keyword the function does not have raises TypeError before
\* the function's body runs
CallOutcome(keywords, parameters) ==
    IF keywords \subseteq parameters THEN "completed" ELSE "Exception"

\* the bodies run inside log_request_context: the handler's, and any other
Endpoints == {"/generate-ad-image", "/other"}

BodiesOf(endpoint) ==
    IF endpoint = "/generate-ad-image"
    THEN {CallOutcome(HandlerKeywords, GenerateAdImageParameters)}
    ELSE BodyOutcomes

\* what the client gets: the handler's return value with status 200, or 500
\* for an exception that leaves the handler
Response(caller) ==
    IF caller = "completed"
    THEN [status |-> 200, success |-> TRUE,
          data |-> {"image_path", "image_url", "platform", "dimensions",
                    "generation_time", "metadata"}]
    ELSE [status |-> 500, success |-> FALSE, data |-> {}]

InitLogs ==
    /\ rz = RzIdle
    /\ cmp = CmpIdle
    /\ img = << >>
    /\ disk = NoFile
    /\ prev = NoPrev
    /\ ev = EvIdle
    /\ io = IoIdle
    /\ an = AnIdle
    /\ rq = RqIdle
    /\ seen = NotSeen
    /\ fsc = FscIdle
    /\ par = ParIdle
    /\ lg = [pc |-> "idle", now |-> 0,
             db |-> [request_logs |-> << >>, error_logs |-> << >>,
                     performance_logs |-> << >>, business_data |-> <<0>>]]

\* time passes between the calls
Tick ==
    /\ lg.pc = "idle"
    /\ lg.now < MaxClock
    /\ lg' = [lg EXCEPT !.now = lg.now + 1]
    /\ UNCHANGED <<rz, cmp, img, disk, prev, ev, io, an, rq, seen, fsc, par>>

\* a request enters a with log_request_context(...) block
RequestEnters ==
    \E endpoint \in Endpoints :
        /\ lg.pc = "idle"
        /\ Len(lg.db.request_logs) < MaxRows
        /\ Len(lg.db.error_logs) < MaxRows
        /\ lg' = [pc |-> "in_body", now |-> lg.now, db |-> lg.db, endpoint |-> endpoint]
        /\ UNCHANGED <<rz, cmp, img, disk, prev, ev, io, an, rq, seen, fsc, par>>

\* the body ends and log_request_context runs to its end
BodyEnds ==
    /\ lg.pc = "in_body"
    /\ \E body \in BodiesOf(lg.endpoint), request_stored \in BOOLEAN, error_stored \in BOOLEAN :
          LET r == log_request_context(lg.db, lg.now, body, request_stored, error_stored)
          IN  lg' = [pc |-> "done", now |-> lg.now, db |-> r.db,
                     call |-> "log_request_context", endpoint |-> lg.endpoint,
                     body |-> body, before |-> lg.db,
                     request_stored |-> request_stored, error_stored |-> error_stored,
                     attempts |-> r.attempts, caller |-> r.caller,
                     response |-> Response(r.caller)]
    /\ UNCHANGED <<rz, cmp, img, disk, prev, ev, io, an, rq, seen, fsc, par>>

\* one call of log_performance
LogPerformance ==
    \E stored \in BOOLEAN :
        /\ lg.pc = "idle"
        /\ Len(lg.db.performance_logs) < MaxRows
        /\ lg' = [lg EXCEPT !.db = WriteLog(lg.db, "performance_logs", lg.now, stored)]
        /\ UNCHANGED <<rz, cmp, img, disk, prev, ev, io, an, rq, seen, fsc, par>>

\* one call of cleanup_old_logs(days)
CleanupOldLogs ==
    \E days \in DaysSamples, failure \in DbFailures :
        LET r == cleanup_old_logs(lg.db, lg.now, days, failure)
        IN  /\ lg.pc = "idle"
            /\ lg' = [pc |-> "done", now |-> lg.now, db |-> r.db,
                      call |-> "cleanup_old_logs", days |-> days, failure |-> failure,
                      before |-> lg.db, returned |-> r.returned]
            /\ UNCHANGED <<rz, cmp, img, disk, prev, ev, io, an, rq, seen, fsc, par>>

\* the caller goes on
LogCallReturned ==
    /\ lg.pc = "done"
    /\ lg' = [pc |-> "idle", now |-> lg.now, db |-> lg.db]
    /\ UNCHANGED <<rz, cmp, img, disk, prev, ev, io, an, rq, seen, fsc, par>>

NextLogs ==
    \/ Tick
    \/ RequestEnters
    \/ BodyEnds
    \/ LogPerformance
    \/ CleanupOldLogs
    \/ LogCallReturned

SpecLogs == InitLogs /\ [][NextLogs]_vars

LogCallDone(call) == lg.pc = "done" /\ lg.call = call

\* the positions of the rows of a table with a timestamp before the cutoff
OldRows(rows, cutoff_date) == {i \in 1..Len(rows) : rows[i] < cutoff_date}

\* the rows of a table at positions outside gone, in their order
RECURSIVE Without(_, _, _)
Without(rows, gone, i) ==
    IF i > Len(rows) THEN << >>
    ELSE (IF i \in gone THEN << >> ELSE <<rows[i]>>) \o Without(rows, gone, i + 1)

LogTables == {LOG_TABLES_ONLY[i] : i \in 1..Len(LOG_TABLES_ONLY)}

\* C24: cleanup_old_logs(days) deletes exactly the rows of request_logs,
\* error_logs and performance_logs whose timestamp is strictly earlier than
\* now - days, leaves newer rows and every other table unchanged, and returns
\* the number of rows deleted; when the database fails it returns 0 and
\* nothing is committed.
C24_CleanupDeletesOldLogs ==
    LogCallDone("cleanup_old_logs") =>
        LET cutoff_date == lg.now - lg.days
        IN  IF lg.failure = "none"
            THEN /\ \A t \in LogTables :
                       lg.db[t] = Without(lg.before[t], OldRows(lg.before[t], cutoff_date), 1)
                 /\ lg.db[BusinessTable] = lg.before[BusinessTable]
                 /\ lg.returned =
                        Cardinality(OldRows(lg.before.request_logs, cutoff_date))
                        + Cardinality(OldRows(lg.before.error_logs, cutoff_date))
                        + Cardinality(OldRows(lg.before.performance_logs, cutoff_date))
            ELSE /\ lg.returned = 0
                 /\ lg.db = lg.before

\* C24 witness: a cleanup deleted rows of two tables and kept a row whose
\* timestamp is the cutoff itself
C24_Witness ==
    /\ LogCallDone("cleanup_old_logs")
    /\ lg.failure = "none"
    /\ lg.returned >= 2
    /\ Len(lg.db.request_logs) < Len(lg.before.request_logs)
    /\ Len(lg.db.performance_logs) < Len(lg.before.performance_logs)
    /\ \E t \in LogTables : \E i \in 1..Len(lg.db[t]) : lg.db[t][i] = lg.now - lg.days

\* C25: a well-formed POST /generate-ad-image always ends with status 200
\* and {success: true, data} whose data has image_path, image_url and
\* dimensions: the handler's call of generate_ad_image never fails.
C25_GenerateAdImageAlways200 ==
    (LogCallDone("log_request_context") /\ lg.endpoint = "/generate-ad-image") =>
        /\ lg.body = "completed"
        /\ lg.response.status = 200
        /\ lg.response.success
        /\ {"image_path", "image_url", "dimensions"} \subseteq lg.response.data

\* the log calls log_request_context made for a body that ended in body, and
\* what its caller saw, whatever the database did
LoggedOnce(body) ==
    /\ lg.caller = body
    /\ lg.attempts =
           IF body = "completed"
           THEN <<[table_name |-> "request_logs", success |-> TRUE]>>
           ELSE <<[table_name |-> "request_logs", success |-> FALSE],
                  [table_name |-> "error_logs", success |-> FALSE]>>
    /\ \A t \in DOMAIN lg.db : Len(lg.db[t]) <= Len(lg.before[t]) + 1

\* C30 as claimed: for every body run inside log_request_context exactly one
\* request-log write is attempted, with success = true when the body
\* completes and with success = false, followed by exactly one error-log
\* write, when it raises; the exception is re-raised, and a failure of the
\* logging database never changes what the caller sees.
C30_OneRequestLogPerBody ==
    LogCallDone("log_request_context") => LoggedOnce(lg.body)

\* C30 as the code has it: the same for a body that completes or raises an
\* Exception; a BaseException that is no Exception (a cancellation) passes
\* through without any log write.
C30_OneRequestLogUnlessBaseException ==
    LogCallDone("log_request_context") =>
        IF lg.body = "BaseException"
        THEN lg.attempts = << >> /\ lg.caller = lg.body /\ lg.db = lg.before
        ELSE LoggedOnce(lg.body)

\* C30 witness: the body raised, the database failed on both writes, and the
\* caller saw the body's exception
C30_Witness ==
    /\ LogCallDone("log_request_context")
    /\ lg.body = "Exception"
    /\ ~lg.request_stored
    /\ ~lg.error_stored
    /\ Len(lg.attempts) = 2
    /\ lg.db = lg.before
    /\ lg.caller = "Exception"
=============================================================================
